---- MODULE Spec2Model ----
(***************************************************************************)
(* A model of the MCPI server (mcpi-server): plugin registry, JSON-RPC      *)
(* dispatcher (process_mcp_message), batch handler (McpMessageHandler) and  *)
(* the streamable-HTTP handlers of main.rs with their session table; and of *)
(* the DNS-TXT record parser of the client (mcpi-client discovery.rs).      *)
(*                                                                         *)
(* JSON values are modelled structurally.  A scalar that the code only       *)
(* copies (an id, a method name, a header) is the string of its JSON text,   *)
(* so the id 1 is "1", the id "a" is "\"a\"" and the JSON null is "null".    *)
(***************************************************************************)
EXTENDS Integers, Sequences, FiniteSets, Bags, TLC

VARIABLES
    plugins,        \* PluginRegistry.plugins: name -> plugin (HashMap)
    startup,        \* position of main() in register_all_plugins; 0 = gave up
    http_sessions,  \* AppState.http_sessions: id -> HttpSessionInfo
    request_count,  \* AppState.request_count
    suspended,      \* the /mcp requests counted and waiting at their handler's first await
    request,        \* the HTTP request that moved last: received, or answered
    reply,          \* the HTTP response produced for it, NoReply while it waits
    deleted,        \* history: the session ids DELETE has removed so far
    stored,         \* history: how often GET has put each session id into the table
    txt,            \* client: the TXT record content parsed last
    info,           \* client: the Result of parse_mcp_txt_record for it
    registration,   \* the plugin register_plugin was called with last, and its Result
    ws,             \* the WebSocket connections: loop position, frames in flight and sent
    active_ws_connections,  \* AppState.active_ws_connections
    lifecycle,      \* the server process, the signal it got and the exchanges it serves
    client_run,     \* one run of the client CLI: where main stands and how it ended
    deletes         \* the DELETE /mcp requests that run concurrently

\* The variables of the server's request handling, of the client, and the rest.
server_vars ==
    <<plugins, startup, http_sessions, request_count, suspended, request, reply, deleted,
      stored>>
client_vars == <<txt, info>>
aside == <<registration, ws, active_ws_connections, lifecycle, client_run, deletes>>

vars == <<server_vars, client_vars, aside>>

-----------------------------------------------------------------------------
(* Bounds of the model *)

\* HTTP requests per behaviour (request_count is an unbounded counter).
MaxRequests == 3
\* Messages per behaviour of the dispatcher.
MaxRpcRequests == 2
\* Requests on /mcp whose handlers wait at the same time.
MaxSuspended == 2
\* Elements per batch.
MaxBatchLen == 2

-----------------------------------------------------------------------------
(* Markers for JSON members and headers *)

\* The member (or header) is not there.
Absent == "<absent>"
\* The member is there and is not a JSON string.
NonString == "<non-string>"
\* A header value that HeaderValue::to_str refuses (not visible ASCII).
Opaque == "<opaque>"
\* Option::None of a stored value.
None == "<none>"

-----------------------------------------------------------------------------
(* Plugins: mcpi-server/src/plugins *)

\* register_core_plugins then register_extension_plugins, in call order.
PluginOrder ==
    << "hello", "website", "store_product", "store_customer",
       "store_order", "store_review", "social", "weather_forecast" >>

PluginNames == { PluginOrder[i] : i \in 1..Len(PluginOrder) }

\* supported_operations() of each plugin.
supported_operations(name) ==
    CASE name = "hello"            -> {"HELLO"}
      [] name = "website"          -> {"GET", "LIST", "SEARCH"}
      [] name = "store_product"    -> {"SEARCH_PRODUCTS", "GET_PRODUCT", "LIST_PRODUCTS"}
      [] name = "store_customer"   -> {"SEARCH_CUSTOMERS", "GET_CUSTOMER", "LIST_CUSTOMERS"}
      [] name = "store_order"      -> {"SEARCH_ORDERS", "GET_ORDER", "LIST_ORDERS"}
      [] name = "store_review"     -> {"SEARCH_REVIEWS", "GET_REVIEW", "LIST_REVIEWS"}
      [] name = "social"           -> {"LIST_REFERRALS", "GET_REFERRAL", "LIST"}
      [] name = "weather_forecast" -> {"GET", "LIST"}

\* The plugins built on JsonDataPlugin (website::create_plugin, store::create_plugins).
JsonPlugins == {"website", "store_product", "store_customer", "store_order", "store_review"}

\* What a plugin finds when it reads its data file.
FsStates == {"ok", "missing", "corrupt"}

\* PluginResult: Ok(value) or Err(message).
Ok(text) == [ok |-> TRUE, value |-> "object", text |-> text]
Err(msg) == [ok |-> FALSE, value |-> "", text |-> msg]

IoError(fs) ==
    IF fs = "missing" THEN "No such file or directory (os error 2)"
    ELSE "expected value at line 1 column 1"

-----------------------------------------------------------------------------
(* serde_json::Value, as the plugins build and read it *)

JNone == [t |-> "none"]
JStr(s) == [t |-> "string", s |-> s]
JNum(n) == [t |-> "number", n |-> n]
JArr(items) == [t |-> "array", items |-> items]

\* The order of two keys in a serde_json::Map (a BTreeMap: byte order), for
\* keys written with '_' and lower case letters.
RECURSIVE key_lt(_, _)
key_lt(a, b) ==
    LET alphabet == "_abcdefghijklmnopqrstuvwxyz"
        rank(c) == CHOOSE i \in 1..Len(alphabet) : SubSeq(alphabet, i, i) = c
    IN  IF Len(b) = 0 THEN FALSE
        ELSE IF Len(a) = 0 THEN TRUE
        ELSE IF SubSeq(a, 1, 1) # SubSeq(b, 1, 1)
        THEN rank(SubSeq(a, 1, 1)) < rank(SubSeq(b, 1, 1))
        ELSE key_lt(SubSeq(a, 2, Len(a)), SubSeq(b, 2, Len(b)))

\* json!({..}): an object of the members <<key, value>> given, kept in key
\* order.  The keys given differ from each other.
JObj(members) ==
    LET n == Len(members)
        place == [i \in 1..n |->
                     1 + Cardinality({ j \in 1..n : key_lt(members[j][1], members[i][1]) })]
    IN  [t |-> "object",
         members |-> [k \in 1..n |-> members[CHOOSE i \in 1..n : place[i] = k]]]

\* Value::get(key)
get(v, key) ==
    IF v.t = "object" /\ \E i \in 1..Len(v.members) : v.members[i][1] = key
    THEN v.members[CHOOSE i \in 1..Len(v.members) : v.members[i][1] = key][2]
    ELSE JNone

\* value[key] = member, on an object
set(v, key, member) ==
    JObj(SelectSeq(v.members, LAMBDA m : m[1] # key) \o << <<key, member>> >>)

\* Value::as_str
as_str(v) == IF v.t = "string" THEN v.s ELSE Absent

\* serde_json::to_string_pretty: two spaces per level, members in key order.
RECURSIVE to_string_pretty(_, _)
to_string_pretty(v, indent) ==
    LET inner == indent \o "  "
        n == IF v.t = "array" THEN Len(v.items)
             ELSE IF v.t = "object" THEN Len(v.members) ELSE 0
        entry(i) ==
            IF v.t = "array" THEN to_string_pretty(v.items[i], inner)
            ELSE "\"" \o v.members[i][1] \o "\": "
                     \o to_string_pretty(v.members[i][2], inner)
        lines[i \in 0..n] ==
            IF i = 0 THEN ""
            ELSE lines[i - 1] \o (IF i > 1 THEN ",\n" ELSE "") \o inner \o entry(i)
    IN  CASE v.t = "string" -> "\"" \o v.s \o "\""
          [] v.t = "number" -> ToString(v.n)
          [] v.t = "none"   -> "null"
          [] v.t = "array"  -> IF n = 0 THEN "[]"
                               ELSE "[\n" \o lines[n] \o "\n" \o indent \o "]"
          [] v.t = "object" -> IF n = 0 THEN "{}"
                               ELSE "{\n" \o lines[n] \o "\n" \o indent \o "}"

\* The optional string member of the arguments, with its default.
str_or(value, default) == IF value \in {Absent, NonString} THEN default ELSE value

\* PluginResult Ok(value), as handle_call_tool renders it.
OkValue(v) == Ok(to_string_pretty(v, ""))

-----------------------------------------------------------------------------
(* The hello, weather and social plugins *)

\* HelloPlugin::load_hello_config: data/hello/config/data.json when it is
\* there, the built-in configuration otherwise.  The file that loads is
\*   {"default": {"introduction": "Hi",
\*                "metadata": {"provider": {"name": "P"}, "capabilities": ["a"],
\*                             "primary_focus": ["t"]}},
\*    "contexts": {"shopping": {"introduction": "Shop",
\*                              "highlight_capabilities": ["store_product"]}}}
load_hello_config(fs) ==
    IF fs = "missing"
    THEN JObj(<< <<"default", JObj(<<
             <<"introduction", JStr("Hello! I'm the AI assistant for this website. How can I assist you today?")>>,
             <<"metadata", JObj(<< <<"provider", JObj(<<
                 <<"name", JStr("MCPI Service")>>,
                 <<"domain", JStr("mcpintegrate.com")>> >>)>> >>)>> >>)>> >>)
    ELSE JObj(<<
             <<"default", JObj(<<
                 <<"introduction", JStr("Hi")>>,
                 <<"metadata", JObj(<<
                     <<"provider", JObj(<< <<"name", JStr("P")>> >>)>>,
                     <<"capabilities", JArr(<<JStr("a")>>)>>,
                     <<"primary_focus", JArr(<<JStr("t")>>)>> >>)>> >>)>>,
             <<"contexts", JObj(<<
                 <<"shopping", JObj(<<
                     <<"introduction", JStr("Shop")>>,
                     <<"highlight_capabilities", JArr(<<JStr("store_product")>>)>> >>)>> >>)>> >>)

\* The member of v, or the default when v has none.
get_or(v, key, default) == IF get(v, key) = JNone THEN default ELSE get(v, key)

\* hello::operations::generate_hello_response
generate_hello_response(config, context, detail_level) ==
    LET default_intro == as_str(get(get(config, "default"), "introduction"))
        default_metadata == get_or(get(config, "default"), "metadata", JObj(<<>>))
        context_config == IF context = "" THEN JNone
                          ELSE get(get(config, "contexts"), context)
        ctx_intro == as_str(get(context_config, "introduction"))
        intro_text == IF ctx_intro # Absent THEN ctx_intro
                      ELSE IF default_intro # Absent THEN default_intro
                      ELSE "Welcome to our website."
        metadata == IF get(context_config, "highlight_capabilities") # JNone
                    THEN set(default_metadata, "highlight_capabilities",
                             get(context_config, "highlight_capabilities"))
                    ELSE default_metadata
        content == JArr(<< JObj(<< <<"type", JStr("text")>>, <<"text", JStr(intro_text)>> >>) >>)
    IN  CASE detail_level = "basic" ->
                OkValue(JObj(<< <<"content", content>>,
                     <<"metadata", JObj(<< <<"provider",
                           get_or(metadata, "provider", JObj(<<>>))>> >>)>> >>))
          [] detail_level = "detailed" ->
                OkValue(JObj(<< <<"content", content>>, <<"metadata", metadata>> >>))
          [] OTHER ->
                OkValue(JObj(<< <<"content", content>>,
                     <<"metadata", JObj(<<
                         <<"provider", get_or(metadata, "provider", JObj(<<>>))>>,
                         <<"capabilities", get_or(metadata, "capabilities", JArr(<<>>))>>,
                         <<"topics", get_or(metadata, "primary_focus", JArr(<<>>))>> >>)>> >>))

\* HelloPlugin::execute
hello_execute(operation, params, fs) ==
    IF operation = "HELLO"
    THEN LET context == str_or(params.context, "")
             detail_level == str_or(params.detail_level, "standard")
         IN  IF fs = "corrupt" THEN Err(IoError(fs))
             ELSE generate_hello_response(load_hello_config(fs), context, detail_level)
    ELSE Err("Unsupported operation: " \o operation)

\* WeatherPlugin::new: the locations.
locations == <<"New York", "London", "Tokyo", "Sydney", "Paris">>

\* chrono::Utc::now(): what the system clock shows when it is read, as the
\* date and time to the second and the nanoseconds since.  Every call reads
\* the clock anew, and SystemTime is not monotonic: any call may return any
\* of these instants.
Utc_now ==
    { [naive |-> "2026-10-29T22:28:27", nanos |-> 187716994],
      [naive |-> "2026-10-29T22:28:27", nanos |-> 7000000] }

\* The decimal digits of n, with zeros in front up to the width.
zero_padded(n, width) ==
    SubSeq("000000000", 1, width - Len(ToString(n))) \o ToString(n)

\* DateTime<Utc>::to_rfc3339: the fraction of the second is left out when it
\* is zero and has three, six or nine digits otherwise, the fewest that show
\* it exactly; the offset of Utc is written +00:00.
to_rfc3339(instant) ==
    instant.naive
        \o (IF instant.nanos = 0 THEN ""
            ELSE IF instant.nanos % 1000000 = 0
            THEN "." \o zero_padded(instant.nanos \div 1000000, 3)
            ELSE IF instant.nanos % 1000 = 0
            THEN "." \o zero_padded(instant.nanos \div 1000, 6)
            ELSE "." \o zero_padded(instant.nanos, 9))
        \o "+00:00"

\* weather::operations::generate_forecast.  now is what Utc::now() returns.
generate_forecast(location, now) ==
    LET conditions == <<"Sunny", "Cloudy", "Rainy", "Snowy", "Windy", "Foggy">>
        condition_index == CASE location = "London" -> 3
                             [] location = "Tokyo"  -> 1
                             [] location = "Paris"  -> 2
                             [] OTHER               -> 0
        at(i) == conditions[(i % Len(conditions)) + 1]
        condition == at(condition_index)
        temp_base == CASE condition = "Sunny"  -> 75
                       [] condition = "Cloudy" -> 65
                       [] condition = "Rainy"  -> 55
                       [] condition = "Snowy"  -> 30
                       [] condition = "Windy"  -> 60
                       [] condition = "Foggy"  -> 55
        location_modifier == CASE location = "London" -> -5
                               [] location = "Tokyo"  -> 5
                               [] location = "Sydney" -> 10
                               [] location = "Paris"  -> -2
                               [] OTHER               -> 0
        temp_min == temp_base - 5 + location_modifier
        temp_max == temp_base + 5 + location_modifier
        temp_current == (temp_min + temp_max) \div 2
        humidity == 60 + condition_index * 5
        wind_speed == IF condition = "Windy" THEN 20 ELSE 5 + condition_index
        day(name, cond, lo, hi, precipitation) ==
            JObj(<< <<"day", JStr(name)>>, <<"condition", JStr(cond)>>,
                    <<"temp_min", JNum(lo)>>, <<"temp_max", JNum(hi)>>,
                    <<"precipitation", JNum(precipitation)>> >>)
    IN  JObj(<< <<"location", JStr(location)>>,
                <<"condition", JStr(condition)>>,
                <<"temperature", JObj(<< <<"current", JNum(temp_current)>>,
                                         <<"min", JNum(temp_min)>>,
                                         <<"max", JNum(temp_max)>> >>)>>,
                <<"humidity", JNum(humidity)>>,
                <<"wind_speed", JNum(wind_speed)>>,
                <<"updated", JStr(to_rfc3339(now))>>,
                <<"forecast", JArr(<<
                    day("Today", condition, temp_min, temp_max, humidity - 30),
                    day("Tomorrow", at(condition_index + 1), temp_min - 2, temp_max - 2,
                        (humidity - 30 + 10) % 100),
                    day("Day after tomorrow", at(condition_index + 2), temp_min - 4,
                        temp_max - 4, (humidity - 30 + 20) % 100) >>)>> >>)

\* WeatherPlugin::execute: no file is read.  nows are the instants the clock
\* shows at the reads of this call, in their order: one per forecast.
weather_execute(operation, params, fs, nows) ==
    LET names == JArr([i \in 1..Len(locations) |-> JStr(locations[i])])
    IN  IF operation = "GET"
        THEN LET location == str_or(params.location, "New York")
             IN  IF (\E i \in 1..Len(locations) : locations[i] = location)
                        \/ location = "New York"
                 THEN OkValue(generate_forecast(location, nows[1]))
                 ELSE OkValue(JObj(<< <<"error", JStr("Location not found")>>,
                                      <<"available_locations", names>> >>))
        ELSE IF operation = "LIST"
        THEN OkValue(JObj(<<
                 <<"results", JArr([i \in 1..Len(locations) |-> generate_forecast(locations[i], nows[i])])>>,
                 <<"count", JNum(Len(locations))>>,
                 <<"available_locations", names>> >>))
        ELSE Err("Unsupported operation: " \o operation)

\* A referral, as data/server/data.json and data/social/referrals/data.json
\* list them.
Referral(name, domain, relationship) ==
    JObj(<< <<"name", JStr(name)>>, <<"domain", JStr(domain)>>,
            <<"relationship", JStr(relationship)>> >>)

\* The "referrals" member of data/server/data.json, which main() hands to
\* SocialPlugin::new.
referrals == JArr(<<Referral("C", "c.example", "partner")>>)

\* SocialPlugin::load_referrals: the file when it is there, the referrals of
\* the server configuration otherwise.  The file that loads is
\*   [{"name": "R", "domain": "r.example", "relationship": "partner"}]
load_referrals(fs) ==
    IF fs = "missing" THEN referrals
    ELSE JArr(<<Referral("R", "r.example", "partner")>>)

\* SocialPlugin::execute with social::operations: the referrals are loaded
\* first, whatever the operation.
social_execute(operation, params, fs) ==
    LET loaded == load_referrals(fs)
        referrals_array == IF loaded.t = "array" THEN loaded.items ELSE <<>>
    IN  IF fs = "corrupt" THEN Err(IoError(fs))
        ELSE IF operation \in {"LIST_REFERRALS", "LIST"}
        THEN LET relationship == str_or(params.relationship, Absent)
                 filtered_referrals ==
                     IF relationship # Absent
                     THEN SelectSeq(referrals_array,
                              LAMBDA r : as_str(get(r, "relationship")) = relationship)
                     ELSE referrals_array
             IN  OkValue(JObj(<< <<"referrals", JArr(filtered_referrals)>>,
                                 <<"count", JNum(Len(filtered_referrals))>> >>))
        ELSE IF operation = "GET_REFERRAL"
        THEN LET domain == str_or(params.domain, "")
                 found == SelectSeq(referrals_array,
                              LAMBDA r : as_str(get(r, "domain")) = domain)
             IN  IF found # <<>> THEN OkValue(found[1])
                 ELSE OkValue(JObj(<< <<"error", JStr("Referral not found")>>,
                                      <<"domain", JStr(domain)>> >>))
        ELSE Err("Unsupported operation: " \o operation)

-----------------------------------------------------------------------------
(* The plugins built on JsonDataPlugin *)

\* The JSON array in a data file that loads.  An item is an object of string
\* members; Absent stands for a member the item does not have.
Data ==
    << [id |-> "item1", name |-> "Alpha", category |-> "news"],
       [id |-> "item2", name |-> "beta ALPHA", category |-> "News"],
       [id |-> "item3", name |-> Absent, category |-> "alpha"] >>

\* The "id" members of the items in a data file that loads.
DataIds == { Data[i].id : i \in 1..Len(Data) }

\* item.get(field).and_then(|f| f.as_str()).unwrap_or("")
item_str(item, field) ==
    IF field \in DOMAIN item /\ item[field] # Absent THEN item[field] ELSE ""

\* str::to_lowercase, on ASCII text.
RECURSIVE to_lowercase(_)
to_lowercase(s) ==
    LET Upper == "ABCDEFGHIJKLMNOPQRSTUVWXYZ"
        Lower == "abcdefghijklmnopqrstuvwxyz"
        lower_char(c) ==
            IF \E i \in 1..Len(Upper) : SubSeq(Upper, i, i) = c
            THEN LET i == CHOOSE k \in 1..Len(Upper) : SubSeq(Upper, k, k) = c
                 IN  SubSeq(Lower, i, i)
            ELSE c
    IN  IF Len(s) = 0 THEN ""
        ELSE lower_char(SubSeq(s, 1, 1)) \o to_lowercase(SubSeq(s, 2, Len(s)))

\* str::contains
contains(s, pat) ==
    \E i \in 1..(Len(s) + 1) :
        i + Len(pat) - 1 <= Len(s) /\ SubSeq(s, i, i + Len(pat) - 1) = pat


\* serde_json::to_string_pretty of an item: its members in key order, two
\* spaces of indentation per level.
pretty_item(item, indent) ==
    LET line(k) == indent \o "  \"" \o k \o "\": \"" \o item[k] \o "\""
        keys == SelectSeq(<<"category", "id", "name">>, LAMBDA k : item[k] # Absent)
        lines[i \in 0..Len(keys)] ==
            IF i = 0 THEN ""
            ELSE lines[i - 1] \o (IF i > 1 THEN ",\n" ELSE "") \o line(keys[i])
    IN  "{\n" \o lines[Len(keys)] \o "\n" \o indent \o "}"

\* serde_json::to_string_pretty of an array of items.
pretty_array(items, indent) ==
    LET elems[i \in 0..Len(items)] ==
            IF i = 0 THEN ""
            ELSE elems[i - 1] \o (IF i > 1 THEN ",\n" ELSE "")
                     \o indent \o "  " \o pretty_item(items[i], indent \o "  ")
    IN  IF Len(items) = 0 THEN "[]"
        ELSE "[\n" \o elems[Len(items)] \o "\n" \o indent \o "]"

\* The text of {"results": .., "count": .., "query": .., "field": ..}.
pretty_search(results, count, query, field) ==
    "{\n  \"count\": " \o ToString(count)
        \o ",\n  \"field\": \"" \o field
        \o "\",\n  \"query\": \"" \o query
        \o "\",\n  \"results\": " \o pretty_array(results, "  ") \o "\n}"

\* The text of {"results": data, "count": ..}.
pretty_list(data, count) ==
    "{\n  \"count\": " \o ToString(count)
        \o ",\n  \"results\": " \o pretty_array(data, "  ") \o "\n}"

\* The text handle_call_tool makes of a JSON object of string members
\* (serde_json::to_string_pretty; the members come in key order).
pretty2(k1, v1, k2, v2) ==
    "{\n  \"" \o k1 \o "\": \"" \o v1 \o "\",\n  \"" \o k2 \o "\": \"" \o v2 \o "\"\n}"

\* Variant of JsonDataPlugin::execute whose SEARCH compares case-sensitively.
json_execute_case_sensitive(name, operation, params, fs) ==
    IF operation \notin supported_operations(name)
    THEN Err("Operation '" \o operation \o "' not supported for plugin '" \o name \o "'")
    ELSE IF fs # "ok" THEN Err(IoError(fs))
    ELSE IF operation = "SEARCH"
    THEN LET query == str_or(params.query, "")
             field == str_or(params.field, "name")
             filtered_items ==
                 SelectSeq(Data, LAMBDA item :
                     \/ query = ""
                     \/ contains(item_str(item, field), query))
         IN  Ok(pretty_search(filtered_items, Len(filtered_items), query, field))
    ELSE IF operation = "GET"
    THEN LET id == str_or(params.arg_id, "")
             found == SelectSeq(Data, LAMBDA item : item.id = id)
         IN  IF found # <<>>
             THEN Ok(pretty_item(found[1], ""))
             ELSE Ok(pretty2("error", "Item not found", "id", id))
    ELSE IF operation = "LIST"
    THEN Ok(pretty_list(Data, Len(Data)))
    ELSE Err("Unsupported operation '" \o operation \o "'")

\* Variant of JsonDataPlugin::execute that loads the data before it checks
\* the operation.
json_execute_loads_first(name, operation, params, fs) ==
    IF fs # "ok" THEN Err(IoError(fs))
    ELSE IF operation \notin supported_operations(name)
    THEN Err("Operation '" \o operation \o "' not supported for plugin '" \o name \o "'")
    ELSE IF operation = "SEARCH"
    THEN LET query == str_or(params.query, "")
             field == str_or(params.field, "name")
             filtered_items ==
                 SelectSeq(Data, LAMBDA item :
                     \/ query = ""
                     \/ contains(to_lowercase(item_str(item, field)), to_lowercase(query)))
         IN  Ok(pretty_search(filtered_items, Len(filtered_items), query, field))
    ELSE IF operation = "GET"
    THEN LET id == str_or(params.arg_id, "")
             found == SelectSeq(Data, LAMBDA item : item.id = id)
         IN  IF found # <<>>
             THEN Ok(pretty_item(found[1], ""))
             ELSE Ok(pretty2("error", "Item not found", "id", id))
    ELSE IF operation = "LIST"
    THEN Ok(pretty_list(Data, Len(Data)))
    ELSE Err("Unsupported operation '" \o operation \o "'")

\* JsonDataPlugin::execute: the support check, then load_data, then the match
\* on SEARCH / GET / LIST.  GET looks for the item whose "id" is the string
\* params.id ("" when that is no string).
json_execute(name, operation, params, fs) ==
    IF operation \notin supported_operations(name)
    THEN Err("Operation '" \o operation \o "' not supported for plugin '" \o name \o "'")
    ELSE IF fs # "ok" THEN Err(IoError(fs))
    ELSE IF operation = "SEARCH"
    THEN LET query == str_or(params.query, "")
             field == str_or(params.field, "name")
             filtered_items ==
                 SelectSeq(Data, LAMBDA item :
                     \/ query = ""
                     \/ contains(to_lowercase(item_str(item, field)), to_lowercase(query)))
         IN  Ok(pretty_search(filtered_items, Len(filtered_items), query, field))
    ELSE IF operation = "GET"
    THEN LET id == str_or(params.arg_id, "")
             found == SelectSeq(Data, LAMBDA item : item.id = id)
         IN  IF found # <<>>
             THEN Ok(pretty_item(found[1], ""))
             ELSE Ok(pretty2("error", "Item not found", "id", id))
    ELSE IF operation = "LIST"
    THEN Ok(pretty_list(Data, Len(Data)))
    ELSE Err("Unsupported operation '" \o operation \o "'")

\* McpPlugin::execute by dynamic dispatch on the registered plugin.
execute(name, operation, params, fs, nows) ==
    CASE name = "hello"            -> hello_execute(operation, params, fs)
      [] name = "weather_forecast" -> weather_execute(operation, params, fs, nows)
      [] name = "social"           -> social_execute(operation, params, fs)
      [] name \in JsonPlugins      -> json_execute(name, operation, params, fs)

\* McpPlugin::read_resource: no plugin overrides the default, which fails.
read_resource(name, suffix) ==
    Err("Plugin '" \o name \o "' does not support reading resource '" \o suffix \o "'")

\* McpPlugin::get_completions: no plugin overrides the default, which is empty.
get_completions(name, param_name, partial_value) == {}

\* McpPlugin::get_resources: the uri suffix each plugin reports.
get_resources(name) ==
    CASE name = "hello"            -> "mcpi://provider/resources/hello_config.json"
      [] name = "website"          -> "mcpi://provider/resources/website/content/data.json"
      [] name = "store_product"    -> "mcpi://provider/resources/store/products/data.json"
      [] name = "store_customer"   -> "mcpi://provider/resources/store/customers/data.json"
      [] name = "store_order"      -> "mcpi://provider/resources/store/orders/data.json"
      [] name = "store_review"     -> "mcpi://provider/resources/store/reviews/data.json"
      [] name = "social"           -> "mcpi://provider/resources/social/referrals/data.json"
      [] name = "weather_forecast" -> "mcpi://provider/resources/weather/locations/data.json"

-----------------------------------------------------------------------------
(* Plugin registry: mcpi-server/src/plugin_registry.rs *)

\* PluginRegistry::get_plugin
get_plugin(name) == IF name \in DOMAIN plugins THEN plugins[name] ELSE None

\* PluginRegistry::get_all_plugins (HashMap values: no order)
get_all_plugins == { plugins[n] : n \in DOMAIN plugins }

\* PluginRegistry::execute_plugin
execute_plugin(name, operation, params, fs, nows) ==
    IF get_plugin(name) # None
    THEN execute(get_plugin(name), operation, params, fs, nows)
    ELSE Err("Plugin '" \o name \o "' not found")

-----------------------------------------------------------------------------
(* Wire types: mcpi-common/src/lib.rs *)

\* The params member of a request, as far as the handlers look into it.
\*   present   : the member is there and is not null (Option<Value> is Some)
\*   object    : it is a JSON object
\*   uri, name : top-level members (Absent, NonString or the string)
\*   arguments : Absent, "object" or "other" (any non-object JSON value)
\*   operation : arguments.operation (Absent, NonString or the string)
\*   ref       : Absent, "ref/prompt", "ref/resource" or "other" (does not parse
\*               as ResourceOrPromptRef)
\*   argName, argValue : argument.name and argument.value
\*   arg_id    : arguments.id (Absent, NonString or the string)
\*   query, field : arguments.query and arguments.field (likewise)
\*   context, detail_level, location, relationship, domain : the members of
\*               arguments with these names (likewise)
NoParams ==
    [present |-> FALSE, object |-> FALSE, uri |-> Absent, name |-> Absent,
     arguments |-> Absent, operation |-> Absent, ref |-> Absent,
     argName |-> Absent, argValue |-> Absent, arg_id |-> Absent,
     query |-> Absent, field |-> Absent, context |-> Absent,
     detail_level |-> Absent, location |-> Absent, relationship |-> Absent,
     domain |-> Absent]

\* "params": {}
EmptyParams == [NoParams EXCEPT !.present = TRUE, !.object = TRUE]

\* "params": [1, 2]
ArrayParams == [NoParams EXCEPT !.present = TRUE]

\* A JSON value met where a request envelope is expected.
\*   obj     : it is a JSON object
\*   seq     : it is a JSON array of four elements, read as the fields of a
\*             request in their order of declaration
\*   jsonrpc : Absent, NonString (the number 7) or the string
\*   id      : Absent or the JSON text of the id ("null" for null)
\*   method  : Absent, NonString (the number 7) or the string
Envelope(jsonrpc, id, method, params) ==
    [obj |-> TRUE, seq |-> FALSE, jsonrpc |-> jsonrpc, id |-> id, method |-> method,
     params |-> params]

\* The JSON array [jsonrpc, id, method, params], such as ["2.0", 1, "ping", null].
Positional(jsonrpc, id, method, params) ==
    [obj |-> FALSE, seq |-> TRUE, jsonrpc |-> jsonrpc, id |-> id, method |-> method,
     params |-> params]

\* The JSON value 7, which is neither an object nor an array.
Scalar == [obj |-> FALSE, seq |-> FALSE, jsonrpc |-> Absent, id |-> Absent,
           method |-> Absent, params |-> NoParams]

\* The grave accent that serde puts around the names and values it reports,
\* taken out of a text that holds it.
tick(s) == LET accent == SubSeq("`'", 1, 1) IN accent \o s \o accent

\* What serde's derived Deserialize of MCPRequest says of a value: None when
\* it parses.  An object is read member by member in the order of its text
\* (jsonrpc, id, method, params here) and the first member of the wrong type
\* ends the parse; the members that are missing are looked for afterwards, in
\* the order of declaration: jsonrpc has a default, id is a Value that any
\* JSON value fills (null included), method is required, params is optional.
\* An array is read element by element (visit_seq).
MCPRequest_error(v) ==
    IF v.obj \/ v.seq
    THEN IF v.jsonrpc = NonString \/ v.method = NonString
         THEN "invalid type: integer " \o tick("7") \o ", expected a string"
         ELSE IF v.id = Absent THEN "missing field " \o tick("id")
         ELSE IF v.method = Absent THEN "missing field " \o tick("method")
         ELSE None
    ELSE "invalid type: integer " \o tick("7") \o ", expected struct MCPRequest"

\* serde's Deserialize of MCPRequest succeeds.
MCPRequest_ok(v) == MCPRequest_error(v) = None

\* The parsed MCPRequest (default_jsonrpc fills a missing jsonrpc).
MCPRequest(v) ==
    [jsonrpc |-> IF v.jsonrpc = Absent THEN "2.0" ELSE v.jsonrpc,
     id |-> v.id, method |-> v.method, params |-> v.params]

\* serde's Serialize of MCPRequest followed by the JSON text being parsed
\* again: params is skipped when it is None.
MCPRequest_to_string(req) == Envelope(req.jsonrpc, req.id, req.method, req.params)

\* The result and error members of a response envelope.
NoResult == [present |-> FALSE, kind |-> "", isError |-> FALSE,
             content |-> <<>>, values |-> {}]

\* ContentItem::Text
Text(t) == [type |-> "text", text |-> t]

\* json!({"jsonrpc":"2.0","id":id,"result":result})
ResultResponse(id, kind, isError, content, values) ==
    [id |-> id,
     result |-> [present |-> TRUE, kind |-> kind, isError |-> isError,
                 content |-> content, values |-> values],
     error |-> [present |-> FALSE, code |-> 0, message |-> ""]]

\* Variant of create_error_response that answers every error with a null id.
create_error_response_null_id(id, code, message) ==
    [id |-> "null",
     result |-> NoResult,
     error |-> [present |-> TRUE, code |-> code, message |-> message]]

\* Variant of create_error_response that also writes a result member.
create_error_response_with_result(id, code, message) ==
    [id |-> id,
     result |-> [NoResult EXCEPT !.present = TRUE],
     error |-> [present |-> TRUE, code |-> code, message |-> message]]

\* create_error_response
create_error_response(id, code, message) ==
    [id |-> id, result |-> NoResult,
     error |-> [present |-> TRUE, code |-> code, message |-> message]]

-----------------------------------------------------------------------------
(* Configuration read by main(): data/server/data.json *)

\* provider_info, loaded once by load_config.
provider_info == [name |-> "Example Provider", domain |-> "example.com",
                  description |-> "An example provider"]

-----------------------------------------------------------------------------
(* URIs: what Url::parse (crate url) makes of the strings used as inputs *)

BadUrl == [ok |-> FALSE, scheme |-> "", path_segments |-> <<>>]
GoodUrl(scheme, segments) == [ok |-> TRUE, scheme |-> scheme, path_segments |-> segments]

\* Url::parse, then Url::scheme and Url::path_segments, on each input URI.
\* A string with no scheme is a relative reference and does not parse; the
\* scheme is lower-cased; a URL without a path has no segment.
Url_parse(u) ==
    CASE u = "mcpi://example.com/resources/hello/config"
            -> GoodUrl("mcpi", <<"resources", "hello", "config">>)
      [] u = "mcpi://example.com/resources/weather_forecast/locations/data.json"
            -> GoodUrl("mcpi", <<"resources", "weather_forecast", "locations", "data.json">>)
      [] u = "MCPI://other.org/resources/social/"
            -> GoodUrl("mcpi", <<"resources", "social", "">>)
      [] u = "mcpi://example.com/resources/nosuch/config"
            -> GoodUrl("mcpi", <<"resources", "nosuch", "config">>)
      [] u = "mcpi://example.com/resources/Hello/config"
            -> GoodUrl("mcpi", <<"resources", "Hello", "config">>)
      [] u = "http://example.com/resources/hello/config"
            -> GoodUrl("http", <<"resources", "hello", "config">>)
      [] u = "mcp://example.com/resources/hello/config"
            -> GoodUrl("mcp", <<"resources", "hello", "config">>)
      [] u = "mcpi://example.com/resources/hello"
            -> GoodUrl("mcpi", <<"resources", "hello">>)
      [] u = "mcpi://example.com/tools/hello/config"
            -> GoodUrl("mcpi", <<"tools", "hello", "config">>)
      [] u = "mcpi://example.com"
            -> GoodUrl("mcpi", <<>>)
      [] OTHER -> BadUrl

\* The URI strings used as inputs; the last two do not parse.
Uris ==
    { "mcpi://example.com/resources/hello/config",
      "mcpi://example.com/resources/weather_forecast/locations/data.json",
      "MCPI://other.org/resources/social/",
      "mcpi://example.com/resources/nosuch/config",
      "mcpi://example.com/resources/Hello/config",
      "http://example.com/resources/hello/config",
      "mcp://example.com/resources/hello/config",
      "mcpi://example.com/resources/hello",
      "mcpi://example.com/tools/hello/config",
      "mcpi://example.com",
      "resources/hello/config",
      "" }

\* [&str]::join("/")
RECURSIVE join(_)
join(segs) ==
    IF segs = <<>> THEN ""
    ELSE IF Len(segs) = 1 THEN segs[1]
    ELSE segs[1] \o "/" \o join(Tail(segs))

\* str::starts_with
starts_with(s, prefix) ==
    /\ Len(prefix) <= Len(s)
    /\ SubSeq(s, 1, Len(prefix)) = prefix

-----------------------------------------------------------------------------
(* Method handlers: mcpi-server/src/main.rs *)

\* handle_initialize: the params are not looked at.
handle_initialize(req) ==
    ResultResponse(req.id, "InitializeResult", FALSE, <<>>, {provider_info.name})

\* handle_list_resources: one Resource per (plugin, reported resource).
handle_list_resources(req) ==
    ResultResponse(req.id, "ListResourcesResult", FALSE, <<>>,
        { "mcpi://" \o provider_info.domain \o "/resources/" \o p \o "/" \o get_resources(p)
            : p \in get_all_plugins })

\* Variant of handle_read_resource that swallows a failed read and answers
\* with empty contents.
handle_read_resource_swallow(req) ==
    LET p == req.params
        invalid == create_error_response(req.id, -32602, "Invalid params for resources/read")
    IN  IF p.uri \in {Absent, NonString} THEN invalid
        ELSE LET uri == Url_parse(p.uri)
                 path == uri.path_segments
             IN  IF ~uri.ok THEN invalid
                 ELSE IF uri.scheme # "mcpi" THEN invalid
                 ELSE IF ~(Len(path) >= 3 /\ path[1] = "resources") THEN invalid
                 ELSE IF get_plugin(path[2]) = None THEN invalid
                 ELSE ResultResponse(req.id, "ReadResourceResult", FALSE, <<>>, {p.uri})

\* handle_read_resource
handle_read_resource(req) ==
    LET p == req.params
        invalid == create_error_response(req.id, -32602, "Invalid params for resources/read")
    IN  IF p.uri \in {Absent, NonString} THEN invalid
        ELSE LET uri == Url_parse(p.uri)
                 path == uri.path_segments
             IN  IF ~uri.ok THEN invalid
                 ELSE IF uri.scheme # "mcpi" THEN invalid
                 ELSE IF ~(Len(path) >= 3 /\ path[1] = "resources") THEN invalid
                 ELSE LET p_name == path[2]
                          r_suffix == join(SubSeq(path, 3, Len(path)))
                      IN  IF get_plugin(p_name) = None THEN invalid
                          ELSE LET r == read_resource(get_plugin(p_name), r_suffix)
                               IN  IF r.ok
                                   THEN IF r.value = "text"
                                        THEN ResultResponse(req.id, "ReadResourceResult",
                                                 FALSE, <<Text(r.text)>>, {p.uri})
                                        ELSE create_error_response(req.id, 101,
                                                 "Internal error: Cannot format resource content")
                                   ELSE create_error_response(req.id, 100,
                                            "Read err: " \o r.text)

\* Variant of handle_list_tools that also lists a tool no plugin stands
\* behind.
handle_list_tools_phantom(req) ==
    ResultResponse(req.id, "ListToolsResult", FALSE, <<>>, get_all_plugins \cup {"nosuch"})

\* handle_list_tools: one Tool per registered plugin.
handle_list_tools(req) ==
    ResultResponse(req.id, "ListToolsResult", FALSE, <<>>, get_all_plugins)

\* Variant of handle_call_tool that reports a failed execution as a JSON-RPC
\* error.
handle_call_tool_error_envelope(req, fs, nows) ==
    LET p == req.params
    IN  IF /\ p.present /\ p.object
           /\ p.name \notin {Absent, NonString}
           /\ p.arguments # Absent
        THEN LET op == IF p.operation \in {Absent, NonString} THEN "DEFAULT"
                       ELSE p.operation
                 res == execute_plugin(p.name, op, p, fs, nows)
             IN  IF res.ok
                 THEN ResultResponse(req.id, "CallToolResult", FALSE, <<Text(res.text)>>, {})
                 ELSE create_error_response(req.id, -32603, "Exec err: " \o res.text)
        ELSE create_error_response(req.id, -32602, "Invalid params for tools/call")

\* The arms of the match on what execute_plugin returned, in handle_call_tool.
call_tool_response(id, res) ==
    IF res.ok
    THEN ResultResponse(id, "CallToolResult", FALSE,
             CASE res.value = "string" -> <<Text(res.text)>>
               [] res.value = "null"   -> <<>>
               [] OTHER                -> <<Text(res.text)>>,
             {})
    ELSE ResultResponse(id, "CallToolResult", TRUE,
             <<Text("Exec err: " \o res.text)>>, {})

\* handle_call_tool.  fs is what the plugin finds on disk during the call,
\* nows what the clock shows each time the plugin reads it.
handle_call_tool(req, fs, nows) ==
    LET p == req.params
    IN  IF /\ p.present /\ p.object
           /\ p.name \notin {Absent, NonString}
           /\ p.arguments # Absent
        THEN call_tool_response(req.id,
                 execute_plugin(p.name,
                                IF p.operation \in {Absent, NonString} THEN "DEFAULT"
                                ELSE p.operation,
                                p, fs, nows))
        ELSE create_error_response(req.id, -32602, "Invalid params for tools/call")

\* What serde's Deserialize of CompleteRequestParams says of params that
\* are present: None when they parse.  from_value reads the members in key
\* order (argument, then ref), each of them to its end, and looks for the
\* missing ones afterwards (ref, then argument).  The argument member is
\* there when one of its members is; the ref "other" is {"type": "zzz"}.
CompleteRequestParams_error(p) ==
    LET argument == p.argName # Absent \/ p.argValue # Absent
    IN  IF ~p.object
        THEN "invalid type: sequence, expected struct CompleteRequestParams"
        ELSE IF argument /\ NonString \in {p.argName, p.argValue}
        THEN "invalid type: integer " \o tick("7") \o ", expected a string"
        ELSE IF argument /\ p.argName = Absent THEN "missing field " \o tick("name")
        ELSE IF argument /\ p.argValue = Absent THEN "missing field " \o tick("value")
        ELSE IF p.ref = "other"
        THEN "unknown variant " \o tick("zzz") \o ", expected "
                 \o tick("ref/prompt") \o " or " \o tick("ref/resource")
        ELSE IF p.ref = Absent THEN "missing field " \o tick("ref")
        ELSE IF ~argument THEN "missing field " \o tick("argument")
        ELSE None

\* serde's Deserialize of CompleteRequestParams succeeds.
CompleteRequestParams_ok(p) == p.present /\ CompleteRequestParams_error(p) = None

\* handle_completions.  The flattened context holds the members of params
\* other than ref and argument, so its "name" is the top-level name.
handle_completions(req) ==
    LET p == req.params
        tool_name_context == IF p.name \in {Absent, NonString} THEN None ELSE p.name
    IN  IF CompleteRequestParams_ok(p)
        THEN IF p.argName = "name" /\ tool_name_context = None
             THEN ResultResponse(req.id, "CompleteResult", FALSE, <<>>,
                      { n \in get_all_plugins : starts_with(n, p.argValue) })
             ELSE IF tool_name_context # None /\ get_plugin(tool_name_context) # None
             THEN ResultResponse(req.id, "CompleteResult", FALSE, <<>>,
                      get_completions(get_plugin(tool_name_context), p.argName, p.argValue))
             ELSE ResultResponse(req.id, "CompleteResult", FALSE, <<>>, {})
        ELSE create_error_response(req.id, -32602,
                 "Invalid params for completion/complete: "
                     \o (IF p.present THEN CompleteRequestParams_error(p)
                         ELSE "Missing params"))

\* handle_ping
handle_ping(req) == ResultResponse(req.id, "EmptyResult", FALSE, <<>>, {})

\* Variant of dispatch whose default arm answers Invalid Request.
dispatch_invalid_request(req, fs, nows) ==
    CASE req.method = "initialize"     -> handle_initialize(req)
      [] req.method = "resources/list" -> handle_list_resources(req)
      [] req.method = "resources/read" -> handle_read_resource(req)
      [] req.method = "tools/list"     -> handle_list_tools(req)
      [] req.method = "tools/call"     -> handle_call_tool(req, fs, nows)
      [] req.method = "completions"    -> handle_completions(req)
      [] req.method = "ping"           -> handle_ping(req)
      [] OTHER -> create_error_response(req.id, -32600, "Invalid Request")

\* The match on req.method in process_mcp_message.
dispatch(req, fs, nows) ==
    CASE req.method = "initialize"     -> handle_initialize(req)
      [] req.method = "resources/list" -> handle_list_resources(req)
      [] req.method = "resources/read" -> handle_read_resource(req)
      [] req.method = "tools/list"     -> handle_list_tools(req)
      [] req.method = "tools/call"     -> handle_call_tool(req, fs, nows)
      [] req.method = "completions"    -> handle_completions(req)
      [] req.method = "ping"           -> handle_ping(req)
      [] OTHER -> create_error_response(req.id, -32601,
                      "Method not found: " \o req.method)

\* Option<String> as the handlers return it: no response, one envelope, or a
\* JSON array of envelopes.
NoResponse == [some |-> FALSE, array |-> FALSE, envelopes |-> <<>>]
Single(e) == [some |-> TRUE, array |-> FALSE, envelopes |-> <<e>>]
Array(es) == [some |-> TRUE, array |-> TRUE, envelopes |-> es]

\* A text on the wire.
\*   padded : it has leading or trailing white space
\*   form   : after trimming it is "array" ([...]), "object" ({...}) or "other"
\*   valid  : it is JSON
\*   values : the elements of the array, or the one value of the object
Message(form, valid, values) ==
    [padded |-> FALSE, form |-> form, valid |-> valid, values |-> values]

\* The characters of the texts.  A text is written on one line, with ", "
\* between members or elements and ": " after a member's name; NonString is
\* the number 7, arguments that are no object are 7, "params": [1, 2] is the
\* params that are no object, and a padded text has one space before it and
\* one after.
RECURSIVE text_of(_)
text_of(v) ==
    LET n == IF v.t = "array" THEN Len(v.items)
             ELSE IF v.t = "object" THEN Len(v.members) ELSE 0
        entry(i) ==
            IF v.t = "array" THEN text_of(v.items[i])
            ELSE "\"" \o v.members[i][1] \o "\": " \o text_of(v.members[i][2])
        entries[i \in 0..n] ==
            IF i = 0 THEN ""
            ELSE entries[i - 1] \o (IF i > 1 THEN ", " ELSE "") \o entry(i)
    IN  CASE v.t = "string" -> "\"" \o v.s \o "\""
          [] v.t = "number" -> ToString(v.n)
          [] v.t = "none"   -> "null"
          [] v.t = "array"  -> "[" \o entries[n] \o "]"
          [] v.t = "object" -> "{" \o entries[n] \o "}"

\* The JSON value of a member that is a string or NonString.
string_value(x) == IF x = NonString THEN JNum(7) ELSE JStr(x)

\* The JSON value of the params that are present.
params_value(p) ==
    LET member(key, x) == IF x = Absent THEN <<>> ELSE << <<key, string_value(x)>> >>
        arguments ==
            JObj(member("operation", p.operation) \o member("id", p.arg_id)
                    \o member("query", p.query) \o member("field", p.field)
                    \o member("context", p.context)
                    \o member("detail_level", p.detail_level)
                    \o member("location", p.location)
                    \o member("relationship", p.relationship)
                    \o member("domain", p.domain))
        ref == CASE p.ref = "ref/prompt" ->
                      JObj(<< <<"type", JStr("ref/prompt")>>, <<"name", JStr("p")>> >>)
                 [] p.ref = "ref/resource" ->
                      JObj(<< <<"type", JStr("ref/resource")>>, <<"uri", JStr("u")>> >>)
                 [] OTHER -> JObj(<< <<"type", JStr("zzz")>> >>)
    IN  IF ~p.object THEN JArr(<<JNum(1), JNum(2)>>)
        ELSE JObj(member("uri", p.uri) \o member("name", p.name)
                     \o (IF p.arguments = Absent THEN <<>>
                         ELSE IF p.arguments = "object" THEN << <<"arguments", arguments>> >>
                         ELSE << <<"arguments", JNum(7)>> >>)
                     \o (IF p.ref = Absent THEN <<>> ELSE << <<"ref", ref>> >>)
                     \o (IF p.argName = Absent /\ p.argValue = Absent THEN <<>>
                         ELSE << <<"argument",
                                   JObj(member("name", p.argName)
                                           \o member("value", p.argValue))>> >>))

\* The members of a value met where a request is expected, as <<name, text>>
\* in the order of the text: jsonrpc, id, method, params.
members_of(v) ==
    LET member(key, x) == IF x = Absent THEN <<>>
                          ELSE << <<key, text_of(string_value(x))>> >>
    IN  member("jsonrpc", v.jsonrpc)
            \o (IF v.id = Absent THEN <<>> ELSE << <<"id", v.id>> >>)
            \o member("method", v.method)
            \o (IF v.params.present THEN << <<"params", text_of(params_value(v.params))>> >>
                ELSE IF v.seq THEN << <<"params", "null">> >>
                ELSE <<>>)

\* The text of such a value up to the end of its kth member or element.
\* members are its members and seq tells whether it is an array.
text_upto(members, seq, k) ==
    LET entries[i \in 0..k] ==
            IF i = 0 THEN IF seq THEN "[" ELSE "{"
            ELSE entries[i - 1] \o (IF i > 1 THEN ", " ELSE "")
                     \o (IF seq THEN members[i][2]
                         ELSE "\"" \o members[i][1] \o "\": " \o members[i][2])
    IN  entries[k]

\* The text of an object or an array of these members.
members_text(members, seq) ==
    text_upto(members, seq, Len(members)) \o (IF seq THEN "]" ELSE "}")

\* The text of such a value.
value_text(v) ==
    IF v.obj \/ v.seq THEN members_text(members_of(v), v.seq) ELSE "7"

\* The column at which from_str gives up on an object or an array that is
\* no request: the end of the first jsonrpc or method that is no string, or
\* else the end of the text, where a member is found missing.
error_column(members, seq) ==
    IF \E k \in 1..Len(members) :
           members[k][1] \in {"jsonrpc", "method"} /\ members[k][2] = "7"
    THEN Len(text_upto(members, seq,
                 CHOOSE k \in 1..Len(members) :
                     /\ members[k][1] \in {"jsonrpc", "method"} /\ members[k][2] = "7"
                     /\ \A j \in 1..(k - 1) :
                            ~(members[j][1] \in {"jsonrpc", "method"}
                                  /\ members[j][2] = "7")))
    ELSE Len(members_text(members, seq))

\* serde_json's Display of the error of from_str::<MCPRequest>: what went
\* wrong and the position reached in the text.  A member of the wrong type
\* is reported at its last character, a missing member at the brace that
\* closes the object.  The text is one that starts with a brace or a single
\* value; handle_message keeps the arrays for process_batch.
from_str_error(message) ==
    LET lead == IF message.padded THEN 1 ELSE 0
        v == message.values[1]
        at(column) == " at line 1 column " \o ToString(lead + column)
    IN  IF ~message.valid
        THEN CASE message.form = "object" -> "trailing comma" \o at(10)
               [] message.form = "array"  ->
                      "invalid type: integer " \o tick("1") \o ", expected a string" \o at(2)
               [] OTHER                   -> "expected value" \o at(1)
        ELSE IF ~(v.obj \/ v.seq) THEN MCPRequest_error(v) \o at(1)
        ELSE MCPRequest_error(v) \o at(error_column(members_of(v), v.seq))

\* process_mcp_message: serde_json::from_str::<MCPRequest>, then the dispatch.
process_mcp_message(message, fs, nows) ==
    IF message.valid /\ Len(message.values) = 1 /\ MCPRequest_ok(message.values[1])
    THEN Single(dispatch(MCPRequest(message.values[1]), fs, nows))
    ELSE Single(create_error_response("null", -32700,
                   "Parse error: " \o from_str_error(message)))

-----------------------------------------------------------------------------
(* Batch handler: mcpi-server/src/message_handler.rs *)

\* message.get("id").cloned().unwrap_or(Value::Null)
message_id(v) == IF v.obj /\ v.id # Absent THEN v.id ELSE "null"

\* What the loop of process_batch pushes for an element with an id, given
\* what process_mcp_message returned for it.
element_response(id, r) ==
    IF r.some THEN <<r.envelopes[1]>>
    ELSE <<create_error_response(id, -32603, "Internal server error")>>

\* One turn of the for loop of process_batch: the responses pushed for v.
batch_element(v, fs, nows) ==
    IF message_id(v) = "null"
    THEN <<>>   \* a notification: dispatched when it parses, never answered
    ELSE IF MCPRequest_ok(v)
    THEN element_response(message_id(v),
             process_mcp_message(
                 Message("object", TRUE, <<MCPRequest_to_string(MCPRequest(v))>>), fs, nows))
    ELSE <<create_error_response(message_id(v), -32700, "Parse error: Invalid MCPRequest")>>

\* Variant of the loop of process_batch that collects the responses in
\* reverse order.
RECURSIVE batch_responses_reversed(_, _, _)
batch_responses_reversed(messages, fs, clock) ==
    IF messages = <<>> THEN <<>>
    ELSE batch_responses_reversed(Tail(messages), fs, Tail(clock))
             \o batch_element(Head(messages), fs, Head(clock))

\* Variant of the loop of process_batch that gives up the rest of the batch
\* once an element failed to parse as a request.
RECURSIVE batch_responses_stops_at_bad(_, _, _)
batch_responses_stops_at_bad(messages, fs, clock) ==
    IF messages = <<>> THEN <<>>
    ELSE IF message_id(Head(messages)) # "null" /\ ~MCPRequest_ok(Head(messages))
    THEN batch_element(Head(messages), fs, Head(clock))
    ELSE batch_element(Head(messages), fs, Head(clock))
             \o batch_responses_stops_at_bad(Tail(messages), fs, Tail(clock))

\* The for loop of process_batch.
RECURSIVE batch_responses(_, _, _)
batch_responses(messages, fs, clock) ==
    IF messages = <<>> THEN <<>>
    ELSE batch_element(Head(messages), fs, Head(clock))
             \o batch_responses(Tail(messages), fs, Tail(clock))

\* The end of process_batch: no response when nothing was pushed, the array
\* of the responses otherwise.
batch_response(responses) ==
    IF responses = <<>> THEN NoResponse ELSE Array(responses)

\* Variant of process_batch that answers a batch without elements with an
\* Invalid Request error.
process_batch_rejects_empty(messages, fs, clock) ==
    IF messages = <<>>
    THEN Single(create_error_response("null", -32600, "Invalid Request"))
    ELSE batch_response(batch_responses(messages, fs, clock))

\* McpMessageHandler::process_batch
process_batch(messages, fs, clock) ==
    batch_response(batch_responses(messages, fs, clock))

\* str::trim
trim(message) == [message EXCEPT !.padded = FALSE]

\* Variant of handle_message that stays silent on a text that is neither an
\* array nor an object.
handle_message_ignores_other(message, fs, clock) ==
    LET trimmed_message == trim(message)
    IN  IF trimmed_message.form = "array"
        THEN IF message.valid
             THEN process_batch(message.values, fs, clock)
             ELSE Single(create_error_response("null", -32700, "Parse error: Invalid batch"))
        ELSE IF trimmed_message.form = "object"
        THEN process_mcp_message(message, fs, Head(clock))
        ELSE NoResponse

\* McpMessageHandler::handle_message.  clock holds, for each value of the
\* message, what the clock shows at the reads made for it.
handle_message(message, fs, clock) ==
    LET trimmed_message == trim(message)
    IN  IF trimmed_message.form = "array"
        THEN IF message.valid
             THEN process_batch(message.values, fs, clock)
             ELSE Single(create_error_response("null", -32700, "Parse error: Invalid batch"))
        ELSE IF trimmed_message.form = "object"
        THEN process_mcp_message(message, fs, Head(clock))
        ELSE Single(create_error_response("null", -32700, "Parse error: Invalid JSON"))

-----------------------------------------------------------------------------
(* Inputs *)

\* params of resources/read
ReadParams ==
    { [EmptyParams EXCEPT !.uri = u] : u \in Uris \cup {NonString} }
        \cup {NoParams, EmptyParams}

ToolNames == {"hello", "weather_forecast", "website", "store_product", "nosuch", "Hello"}
Operations == {"HELLO", "GET", "GET_PRODUCT", "FLY", Absent, NonString}

\* arguments.query and arguments.field of tools/call
Queries == {Absent, NonString, "", "al", "AL", "Beta", "news", "zz"}
Fields == {Absent, NonString, "category", "nofield"}

\* arguments.id of tools/call
ItemIds == {"item1", "nope", NonString}

\* params of tools/call
CallParams ==
    { [EmptyParams EXCEPT !.name = n, !.arguments = "object", !.operation = o]
        : n \in ToolNames, o \in Operations }
        \cup { [EmptyParams EXCEPT !.name = n, !.arguments = a]
                 : n \in {"hello", NonString}, a \in {Absent, "other"} }
        \cup { [EmptyParams EXCEPT !.arguments = "object", !.operation = "HELLO"] }
        \cup { [EmptyParams EXCEPT !.name = n, !.arguments = "object", !.operation = o,
                                   !.arg_id = i]
                 : n \in {"website", "store_product"}, o \in {"GET", "GET_PRODUCT"},
                   i \in ItemIds }
        \cup { [EmptyParams EXCEPT !.name = n, !.arguments = "object",
                                   !.operation = "SEARCH", !.query = q, !.field = f]
                 : n \in {"website", "store_product"}, q \in Queries, f \in Fields }
        \cup { [EmptyParams EXCEPT !.name = n, !.arguments = "object", !.operation = o]
                 : n \in {"website", "store_product"},
                   o \in {"LIST", "LIST_PRODUCTS", "SEARCH_PRODUCTS"} }
        \cup { [EmptyParams EXCEPT !.name = "hello", !.arguments = "object",
                                   !.operation = "HELLO", !.context = c,
                                   !.detail_level = d]
                 : c \in {Absent, "shopping", "support"},
                   d \in {Absent, NonString, "basic", "detailed"} }
        \cup { [EmptyParams EXCEPT !.name = "weather_forecast", !.arguments = "object",
                                   !.operation = "GET", !.location = l]
                 : l \in {NonString, "London", "Atlantis"} }
        \cup { [EmptyParams EXCEPT !.name = "weather_forecast", !.arguments = "object",
                                   !.operation = "LIST"] }
        \cup { [EmptyParams EXCEPT !.name = "social", !.arguments = "object",
                                   !.operation = o, !.relationship = r]
                 : o \in {"LIST", "LIST_REFERRALS", "FLY"},
                   r \in {Absent, "partner", "vendor"} }
        \cup { [EmptyParams EXCEPT !.name = "social", !.arguments = "object",
                                   !.operation = "GET_REFERRAL", !.domain = d]
                 : d \in {Absent, NonString, "r.example", "c.example"} }
        \cup {NoParams, EmptyParams, ArrayParams}

\* params of the completion method
CompleteParams ==
    { [EmptyParams EXCEPT !.ref = "ref/prompt", !.argName = a, !.argValue = v, !.name = n]
        : a \in {"name", "location"}, v \in {"", "store_", "w", "x"},
          n \in {Absent, "weather_forecast", "nosuch"} }
        \cup { [EmptyParams EXCEPT !.ref = r, !.argName = "name", !.argValue = v]
                 : r \in {"other", Absent}, v \in {"", NonString} }
        \cup {NoParams, EmptyParams, ArrayParams}

Methods ==
    { "initialize", "resources/list", "resources/read", "tools/list", "tools/call",
      "completions", "completion/complete", "ping", "foo" }

\* The params tried with each method.
ParamsOf(method) ==
    CASE method = "resources/read" -> ReadParams
      [] method = "tools/call" -> CallParams
      [] method = "completions" -> CompleteParams
      [] method = "completion/complete" ->
            { NoParams,
              [EmptyParams EXCEPT !.ref = "ref/prompt", !.argName = "name", !.argValue = ""] }
      [] OTHER -> {NoParams, EmptyParams}

\* One params value per shape, tried with the second id.
BasicParams ==
    { NoParams,
      [EmptyParams EXCEPT !.uri = "mcpi://example.com/resources/hello/config"],
      [EmptyParams EXCEPT !.name = "hello", !.arguments = "object", !.operation = "HELLO"],
      [EmptyParams EXCEPT !.name = "nosuch", !.arguments = "object", !.operation = "GET"],
      [EmptyParams EXCEPT !.ref = "ref/prompt", !.argName = "name", !.argValue = ""] }

\* JSON objects that are requests with an id: every params value with the
\* numeric id, the basic ones with the string id.
Requests ==
    UNION { { Envelope("2.0", "1", m, p) : p \in ParamsOf(m) }
              \cup { Envelope("2.0", "\"a\"", m, p) : p \in ParamsOf(m) \cap BasicParams }
            : m \in Methods }

\* Notifications (no id), requests with a null id, with a defaulted or an
\* unexpected jsonrpc member, and objects that are no request at all.
OddValues ==
    { Envelope("2.0", Absent, m, NoParams) : m \in {"ping", "tools/list", "foo"} }
        \cup { Envelope("2.0", "null", "ping", NoParams),
               Envelope(Absent, "1", "ping", NoParams),
               Envelope("1.0", "1", "ping", NoParams),
               Envelope(NonString, "1", "ping", NoParams),
               Envelope("2.0", "1", Absent, NoParams),
               Envelope("2.0", "1", NonString, NoParams),
               Envelope(Absent, Absent, Absent, NoParams) }

\* The elements batches are made of.
BatchElements ==
    { Envelope("2.0", "1", "ping", NoParams),
      Envelope("2.0", "\"a\"", "tools/call",
               [EmptyParams EXCEPT !.name = "hello", !.arguments = "object",
                                   !.operation = "HELLO"]),
      Envelope("2.0", "2", "foo", NoParams),
      Envelope("2.0", Absent, "ping", NoParams),
      Envelope("2.0", "null", "ping", NoParams),
      Envelope("2.0", "2", Absent, NoParams),
      Positional("2.0", "1", "ping", NoParams),
      Scalar }

SeqsUpTo(S, n) == UNION { [1..k -> S] : k \in 0..n }

\* The texts sent to the message handler.
Messages ==
    { Message("object", TRUE, <<v>>) : v \in Requests \cup OddValues }
        \cup { [Message("object", TRUE, <<v>>) EXCEPT !.padded = TRUE]
                 : v \in { Envelope("2.0", "1", "ping", NoParams),
                           Envelope("2.0", Absent, "ping", NoParams) } }
        \cup { Message("array", TRUE, b) : b \in SeqsUpTo(BatchElements, MaxBatchLen) }
        \cup { [Message("array", TRUE, <<Envelope("2.0", "1", "ping", NoParams)>>)
                  EXCEPT !.padded = TRUE] }
        \cup { Message("object", FALSE, <<>>),    \* {"id": 1,}
               Message("array", FALSE, <<>>),     \* [1,,2]
               Message("other", FALSE, <<>>),     \* hello
               Message("other", TRUE, <<Scalar>>) }   \* 7

\* The message reaches a plugin, so what is on disk matters.
CallsTool(message) ==
    \E i \in 1..Len(message.values) : message.values[i].method = "tools/call"

NoMessage == Message("other", FALSE, <<>>)

\* The number of times the clock is read for the value v of a message.  Only
\* generate_forecast reads it: v has to parse as a request, be a tools/call
\* that handle_call_tool passes on to the registered weather plugin, and ask
\* for GET with a location the plugin knows (one forecast) or for LIST (one
\* forecast per location).
clock_reads(v) ==
    IF /\ MCPRequest_ok(v)
       /\ v.method = "tools/call"
       /\ v.params.present /\ v.params.object
       /\ v.params.name = "weather_forecast"
       /\ v.params.arguments # Absent
       /\ get_plugin("weather_forecast") # None
    THEN CASE v.params.operation = "GET" ->
                  IF \/ \E i \in 1..Len(locations) :
                            locations[i] = str_or(v.params.location, "New York")
                     \/ str_or(v.params.location, "New York") = "New York"
                  THEN 1 ELSE 0
           [] v.params.operation = "LIST" -> Len(locations)
           [] OTHER -> 0
    ELSE 0

\* What the clock may show at the reads made for each of the values.
RECURSIVE clock_of(_)
clock_of(values) ==
    IF values = <<>> THEN { <<>> }
    ELSE { <<nows>> \o clock : nows \in [1..clock_reads(Head(values)) -> Utc_now],
                               clock \in clock_of(Tail(values)) }

\* What the clock may show while the message is handled: for each of its
\* values the instants read for it, in the order of the reads.  A text that
\* holds no value has no read.
Clock(message) ==
    IF message.values = <<>> THEN { << <<>> >> } ELSE clock_of(message.values)

\* Header values: absent, two session ids, and bytes that are no visible ASCII.
SessionHeaders == {Absent, "s1", "s2", Opaque}
\* The session ids these headers carry.
SessionIds == {"s1", "s2"}
EventHeaders == {Absent, "e1"}

-----------------------------------------------------------------------------
(* Client discovery: mcpi-client/src/discovery.rs *)

\* Parts per TXT record.
MaxParts == 3

\* The Result of parse_mcp_txt_record: Ok(McpServiceInfo) or Err(message).
NoInfo == [ok |-> FALSE, endpoint |-> "", version |-> "", error |-> ""]
McpServiceInfo(endpoint, version) ==
    [ok |-> TRUE, endpoint |-> endpoint, version |-> version, error |-> ""]
McpDiscoveryError(message) ==
    [ok |-> FALSE, endpoint |-> "", version |-> "", error |-> message]

\* char::is_whitespace, for the characters the records use.
is_whitespace(c) == c \in {" ", "\t", "\n"}

\* The i-th character of s.
char_at(s, i) == SubSeq(s, i, i)

\* str::trim_start / str::trim_end / str::trim
RECURSIVE trim_start(_)
trim_start(s) ==
    IF Len(s) > 0 /\ is_whitespace(char_at(s, 1))
    THEN trim_start(SubSeq(s, 2, Len(s)))
    ELSE s
RECURSIVE trim_end(_)
trim_end(s) ==
    IF Len(s) > 0 /\ is_whitespace(char_at(s, Len(s)))
    THEN trim_end(SubSeq(s, 1, Len(s) - 1))
    ELSE s
str_trim(s) == trim_end(trim_start(s))

\* str::trim_matches('"')
RECURSIVE trim_matches_quote(_)
trim_matches_quote(s) ==
    IF Len(s) > 0 /\ char_at(s, 1) = "\""
    THEN trim_matches_quote(SubSeq(s, 2, Len(s)))
    ELSE IF Len(s) > 0 /\ char_at(s, Len(s)) = "\""
    THEN trim_matches_quote(SubSeq(s, 1, Len(s) - 1))
    ELSE s

\* The position of the first character of s from i on that is (or, with
\* white = FALSE, is not) whitespace; Len(s) + 1 when there is none.
RECURSIVE scan(_, _, _)
scan(s, i, white) ==
    IF i > Len(s) THEN i
    ELSE IF is_whitespace(char_at(s, i)) = white THEN i
    ELSE scan(s, i + 1, white)

\* str::split_whitespace: the maximal runs of non-whitespace, in order.
RECURSIVE split_whitespace(_)
split_whitespace(s) ==
    LET start == scan(s, 1, FALSE)
        stop == scan(s, start, TRUE)
    IN  IF start > Len(s) THEN <<>>
        ELSE <<SubSeq(s, start, stop - 1)>> \o split_whitespace(SubSeq(s, stop, Len(s)))

\* The position of the first c in s from i on; 0 when there is none.
RECURSIVE find(_, _, _)
find(s, c, i) ==
    IF i > Len(s) THEN 0
    ELSE IF char_at(s, i) = c THEN i
    ELSE find(s, c, i + 1)

\* str::split_once('='): the text before and after the first '='.
split_once(part) ==
    LET i == find(part, "=", 1)
    IN  IF i = 0 THEN [some |-> FALSE, key |-> "", value |-> ""]
        ELSE [some |-> TRUE, key |-> SubSeq(part, 1, i - 1),
              value |-> SubSeq(part, i + 1, Len(part))]

\* Url::parse(..).scheme() for the endpoints of the records: the text before
\* the first ':' is the scheme; without one the URL is relative and refused,
\* and http(s)/ws(s)/ftp URLs need a host.
Url_scheme(u) ==
    LET SchemeChars ==
            { "a", "b", "c", "d", "e", "f", "g", "h", "i", "j", "k", "l", "m",
              "n", "o", "p", "q", "r", "s", "t", "u", "v", "w", "x", "y", "z" }
        i == find(u, ":", 1)
        scheme == SubSeq(u, 1, i - 1)
        rest == SubSeq(u, i + 1, Len(u))
    IN  IF i <= 1 \/ \E k \in 1..(i - 1) : char_at(u, k) \notin SchemeChars
        THEN [ok |-> FALSE, scheme |-> "", error |-> "relative URL without a base"]
        ELSE IF scheme \in {"http", "https", "ws", "wss", "ftp"} /\ rest \in {"", "/", "//"}
        THEN [ok |-> FALSE, scheme |-> "", error |-> "empty host"]
        ELSE [ok |-> TRUE, scheme |-> scheme, error |-> ""]

\* Variant of the loop of parse_mcp_txt_record that stops at the first key it
\* does not know.
RECURSIVE parse_parts_stop_at_unknown(_, _, _)
parse_parts_stop_at_unknown(parts, version, endpoint) ==
    IF parts = <<>> THEN [version |-> version, endpoint |-> endpoint]
    ELSE LET kv == split_once(Head(parts))
         IN  IF kv.some /\ kv.key = "v"
             THEN parse_parts_stop_at_unknown(Tail(parts), kv.value, endpoint)
             ELSE IF kv.some /\ kv.key = "url"
             THEN parse_parts_stop_at_unknown(Tail(parts), version, kv.value)
             ELSE [version |-> version, endpoint |-> endpoint]

\* The for loop of parse_mcp_txt_record over the parts: the last "v" and the
\* last "url" win, anything else is ignored.
RECURSIVE parse_parts(_, _, _)
parse_parts(parts, version, endpoint) ==
    IF parts = <<>> THEN [version |-> version, endpoint |-> endpoint]
    ELSE LET kv == split_once(Head(parts))
         IN  IF kv.some /\ kv.key = "v"
             THEN parse_parts(Tail(parts), kv.value, endpoint)
             ELSE IF kv.some /\ kv.key = "url"
             THEN parse_parts(Tail(parts), version, kv.value)
             ELSE parse_parts(Tail(parts), version, endpoint)

\* Variant of parse_mcp_txt_record that starts with an empty version.
parse_mcp_txt_record_no_default(txt_record_content) ==
    LET found == parse_parts(split_whitespace(str_trim(txt_record_content)), "", None)
        parsed_url == Url_scheme(found.endpoint)
    IN  IF found.endpoint = None
        THEN McpDiscoveryError("No endpoint URL (url=...) found in TXT record")
        ELSE IF ~parsed_url.ok THEN McpDiscoveryError(parsed_url.error)
        ELSE IF parsed_url.scheme \in {"ws", "wss", "http", "https"}
        THEN McpServiceInfo(found.endpoint, found.version)
        ELSE McpDiscoveryError("Invalid endpoint protocol scheme: '" \o parsed_url.scheme
                               \o "'. Expected ws, wss, http, or https.")

\* Variant of parse_mcp_txt_record that goes on with an empty endpoint when
\* the record has no url.
parse_mcp_txt_record_empty_endpoint(txt_record_content) ==
    LET found == parse_parts(split_whitespace(str_trim(txt_record_content)), "mcp1", "")
        parsed_url == Url_scheme(found.endpoint)
    IN  IF ~parsed_url.ok THEN McpDiscoveryError(parsed_url.error)
        ELSE IF parsed_url.scheme \in {"ws", "wss", "http", "https"}
        THEN McpServiceInfo(found.endpoint, found.version)
        ELSE McpDiscoveryError("Invalid endpoint protocol scheme: '" \o parsed_url.scheme
                               \o "'. Expected ws, wss, http, or https.")

\* Variant of parse_mcp_txt_record that accepts every scheme.
parse_mcp_txt_record_any_scheme(txt_record_content) ==
    LET found == parse_parts(split_whitespace(str_trim(txt_record_content)), "mcp1", None)
        parsed_url == Url_scheme(found.endpoint)
    IN  IF found.endpoint = None
        THEN McpDiscoveryError("No endpoint URL (url=...) found in TXT record")
        ELSE IF ~parsed_url.ok THEN McpDiscoveryError(parsed_url.error)
        ELSE McpServiceInfo(found.endpoint, found.version)

\* parse_mcp_txt_record
parse_mcp_txt_record(txt_record_content) ==
    LET found == parse_parts(split_whitespace(str_trim(txt_record_content)), "mcp1", None)
        parsed_url == Url_scheme(found.endpoint)
    IN  IF found.endpoint = None
        THEN McpDiscoveryError("No endpoint URL (url=...) found in TXT record")
        ELSE IF ~parsed_url.ok THEN McpDiscoveryError(parsed_url.error)
        ELSE IF parsed_url.scheme \in {"ws", "wss", "http", "https"}
        THEN McpServiceInfo(found.endpoint, found.version)
        ELSE McpDiscoveryError("Invalid endpoint protocol scheme: '" \o parsed_url.scheme
                               \o "'. Expected ws, wss, http, or https.")

\* The parts a TXT record is written from: key, '=' and value, or a bare word.
Part(key, eq, value) == [key |-> key, eq |-> eq, value |-> value]
TxtParts ==
    { Part("v", TRUE, "mcp2"),
      Part("url", TRUE, "wss://secure.mcp.org/path"),
      Part("url", TRUE, "http://mcp.test/api?a=b"),
      Part("url", TRUE, "ftp://mcp.example.com/discover"),
      Part("url", TRUE, "local"),
      Part("extra", TRUE, "data"),
      Part("url", FALSE, ""),
      Part("junk", FALSE, "") }

\* The text of a part.
part_str(p) == IF p.eq THEN p.key \o "=" \o p.value ELSE p.key

\* The parts joined by sep.
RECURSIVE parts_str(_, _)
parts_str(parts, sep) ==
    IF parts = <<>> THEN ""
    ELSE IF Len(parts) = 1 THEN part_str(parts[1])
    ELSE part_str(parts[1]) \o sep \o parts_str(Tail(parts), sep)

\* The data of a TXT answer: the parts, the whitespace around and between
\* them, and the quotes the resolver may put around the whole.
TxtRecords ==
    [ parts : UNION { [1..k -> TxtParts] : k \in 0..MaxParts },
      lead : {"", "  "}, sep : {" ", " \t "}, trail : {"", " \n"},
      quoted : BOOLEAN ]
NoRecord == [parts |-> <<>>, lead |-> "", sep |-> " ", trail |-> "", quoted |-> FALSE]

\* The text of the data of a TXT answer.
data_str(r) ==
    LET content == r.lead \o parts_str(r.parts, r.sep) \o r.trail
    IN  IF r.quoted THEN "\"" \o content \o "\"" ELSE content

-----------------------------------------------------------------------------
(* State *)

EmptyMap == [k \in {} |-> None]

\* m with key k bound to v (HashMap::insert)
insert(m, k, v) == [x \in DOMAIN m \cup {k} |-> IF x = k THEN v ELSE m[x]]

\* m without key k (HashMap::remove)
remove(m, k) == [x \in DOMAIN m \ {k} |-> m[x]]

NoRequest == [verb |-> "", path |-> "/mcp", session |-> Absent, last_event |-> Absent,
              body |-> NoMessage, fs |-> "ok", clock |-> << <<>> >>]
\* discovery is the DiscoveryResponse that GET /mcpi/discover answers with.
NoReply == [status |-> 0, content_type |-> Absent, session |-> Absent,
            body |-> "", out |-> NoResponse,
            discovery |-> [provider |-> [name |-> "", domain |-> "", description |-> ""],
                           mode |-> "", capabilities |-> {}, referrals |-> <<>>]]

\* The WebSocket clients, and the frames they send in all per behaviour.
Conns == {"c1", "c2"}
MaxFrames == 3

\* axum's ws::Message, and the two other outcomes of socket.recv(): an error
\* (Some(Err)) and the end of the stream (None).
NoFrame == [type |-> "none", text |-> NoMessage, data |-> ""]
WsText(text) == [type |-> "text", text |-> text, data |-> ""]
WsBinary == [type |-> "binary", text |-> NoMessage, data |-> "b"]
WsPing(data) == [type |-> "ping", text |-> NoMessage, data |-> data]
WsPong(data) == [type |-> "pong", text |-> NoMessage, data |-> data]
WsClose == [type |-> "close", text |-> NoMessage, data |-> ""]
RecvErr == [type |-> "error", text |-> NoMessage, data |-> ""]
RecvNone == [type |-> "eof", text |-> NoMessage, data |-> ""]

\* The texts sent over a WebSocket: two requests, a batch of one notification
\* and a text that is no JSON.
WsBodies ==
    { Message("object", TRUE, <<Envelope("2.0", "1", "ping", NoParams)>>),
      Message("object", TRUE, <<Envelope("2.0", "\"a\"", "tools/list", NoParams)>>),
      Message("array", TRUE, <<Envelope("2.0", Absent, "ping", NoParams)>>),
      Message("other", FALSE, <<>>) }

\* What a client may put on the wire.
WsFrames ==
    { WsText(b) : b \in WsBodies }
        \cup {WsBinary, WsPing("p1"), WsPong("p1"), WsClose, RecvErr, RecvNone}

\* A connection: where its handle_socket loop stands ("idle" before the
\* upgrade, "open" at socket.recv(), "busy" in process_ws_message, "closed"
\* after the loop), the frames the client sent that were not read yet, the
\* frame being processed, the frames the server sent, and the frames read.
NoConnection == [state |-> "idle", inbox |-> <<>>, cur |-> NoFrame,
                 outbox |-> <<>>, read |-> <<>>]

\* The HTTP exchanges a behaviour follows through a shutdown.
MaxExchanges == 3
Exchanges == 1..MaxExchanges

\* The signals sent to the server process.
Signals == {"SIGINT", "SIGTERM"}

\* The server process: "running" in axum::serve, "draining" once
\* shutdown_signal has resolved, "exited" when main has returned, "killed"
\* when a signal without a handler ended it.  Each exchange is "none" (not
\* begun), "in_flight", "answered", "refused" (the connection was not
\* accepted) or "lost" (the process ended before the response).  signal and
\* at_signal keep the first signal delivered and the exchanges then in flight.
Running ==
    [process |-> "running", exchanges |-> [x \in Exchanges |-> "none"],
     signal |-> None, at_signal |-> {}]

\* A run of the client CLI (mcpi-client/src/main.rs).
\*   pc       : the step main is at
\*   protocol : Protocol::McpHttp or Protocol::McpiWebSocket
\*   domain, base_url : whether --domain and --base-url were given
\*   plugin   : --plugin (None when not given)
\*   tools    : the names collected from tools/list
\*   exit     : the exit status of the process, once pc is "exited"
\*   failed   : the steps that failed during the run
NotStarted ==
    [pc |-> "start", protocol |-> "McpHttp", domain |-> FALSE, base_url |-> FALSE,
     plugin |-> None, tools |-> {}, exit |-> 0, failed |-> {}]

\* The tool names a server may list, and the values of --plugin.
ClientTools == {"hello", "website"}
ClientPlugins == {None, "hello", "nosuch"}

\* The tasks that each serve one DELETE /mcp, interleaved at their awaits.
DeleteTasks == {"d1", "d2", "d3"}

\* A DELETE task: "idle" before the request, "begun" once the request is
\* counted and its header read, "removed" once remove() has run under the
\* write lock, "done" once the response is written.  known tells whether the
\* table held the id when the task began, removed what remove() returned, and
\* epoch how often GET had stored the id by then (history).
NoDelete == [pc |-> "idle", session |-> Absent, known |-> FALSE, removed |-> FALSE,
             epoch |-> 0, status |-> 0]

\* No register_plugin call yet.
NoRegistration == [plugin |-> None, ok |-> TRUE]

\* main() before register_all_plugins.
Init ==
    /\ plugins = EmptyMap
    /\ startup = 1
    /\ http_sessions = EmptyMap
    /\ request_count = 0
    /\ suspended = EmptyBag
    /\ request = NoRequest
    /\ reply = NoReply
    /\ deleted = {}
    /\ stored = [id \in SessionIds |-> 0]
    /\ txt = NoRecord
    /\ info = NoInfo
    /\ registration = NoRegistration
    /\ ws = [c \in Conns |-> NoConnection]
    /\ active_ws_connections = 0
    /\ lifecycle = Running
    /\ client_run = NotStarted
    /\ deletes = [t \in DeleteTasks |-> NoDelete]

\* main() has registered every plugin and serves.
Serving == startup = Len(PluginOrder) + 1

\* McpPlugin::name.  A plugin object is written as its name, or as name#k for
\* a further object with the same name.
plugin_name(plugin) ==
    LET i == find(plugin, "#", 1)
    IN  IF i = 0 THEN plugin ELSE SubSeq(plugin, 1, i - 1)

\* Variant of register_plugin that inserts without looking for the name.
register_plugin_overwrites(registry, plugin) ==
    [ok |-> TRUE, registry |-> insert(registry, plugin_name(plugin), plugin)]

\* PluginRegistry::register_plugin: Err when the name is taken, else the
\* registry with the plugin inserted under its name.
register_plugin(registry, plugin) ==
    LET name == plugin_name(plugin)
    IN  IF name \in DOMAIN registry
        THEN [ok |-> FALSE, registry |-> registry]
        ELSE [ok |-> TRUE, registry |-> insert(registry, name, plugin)]

\* The plugin objects offered to register_plugin: two objects per name, and
\* names that differ in case only.
TestPlugins == {"hello", "hello#2", "Hello", "Hello#2", "website", "website#2"}

\* A call of register_plugin on the registry as it is.
RegisterPlugin(plugin) ==
    LET r == register_plugin(plugins, plugin)
    IN  /\ plugins' = r.registry
        /\ registration' = [plugin |-> plugin, ok |-> r.ok]
        /\ UNCHANGED <<startup, http_sessions, request_count, suspended, request, reply, deleted, stored,
                       client_vars, ws, active_ws_connections, lifecycle, client_run, deletes>>

\* One register_plugin call of register_all_plugins; an Err ends main().
RegisterNext ==
    LET r == register_plugin(plugins, PluginOrder[startup])
    IN  /\ startup \in 1..Len(PluginOrder)
        /\ plugins' = r.registry
        /\ startup' = IF r.ok THEN startup + 1 ELSE 0
        /\ UNCHANGED <<http_sessions, request_count, suspended, request, reply, deleted, stored, txt, info, aside>>

\* HeaderMap::get(..).and_then(|v| v.to_str().ok())
header_str(h) == IF h = Opaque THEN Absent ELSE h

\* The requests on /mcp: the verb, the mcp-session-id and last-event-id
\* headers, the body, and what a called plugin finds on disk and on the
\* clock.
GetRequest(session, last_event) ==
    [NoRequest EXCEPT !.verb = "GET", !.session = session, !.last_event = last_event]
PostRequest(session, body, fs, clock) ==
    [NoRequest EXCEPT !.verb = "POST", !.session = session, !.body = body, !.fs = fs,
                      !.clock = clock]
DeleteRequest(session) ==
    [NoRequest EXCEPT !.verb = "DELETE", !.session = session]

\* The first statement of a handler of /mcp: state.request_count.fetch_add(1).
\* A handler that finds a usable mcp-session-id header then waits for the
\* session table (GET, DELETE: write().await; POST: read().await) while other
\* handlers run.
fetch_add(req) ==
    /\ Serving
    /\ header_str(req.session) # Absent
    /\ request_count < MaxRequests
    /\ BagCardinality(suspended) < MaxSuspended
    /\ request_count' = request_count + 1
    /\ suspended' = suspended (+) SetToBag({req})
    /\ request' = req
    /\ reply' = NoReply
    /\ UNCHANGED <<plugins, startup, http_sessions, deleted, stored, txt, info, aside>>

\* A waiting handler goes on: the rest of it runs without another handler in
\* between.
resumes(req) ==
    /\ BagIn(req, suspended)
    /\ suspended' = suspended (-) SetToBag({req})
    /\ request' = req
    /\ UNCHANGED request_count

\* The part of a handler that answers.  With a usable mcp-session-id header
\* it follows the await; without one the handler has no await that waits and
\* the request is counted in the same step.
runs(req) ==
    IF header_str(req.session) # Absent THEN resumes(req)
    ELSE /\ Serving
         /\ request_count < MaxRequests
         /\ request_count' = request_count + 1
         /\ request' = req
         /\ UNCHANGED suspended

\* handle_streamable_get
handle_streamable_get(session, last_event) ==
    LET session_id == header_str(session)
        last_event_id == header_str(last_event)
    IN  /\ runs(GetRequest(session, last_event))
        /\ IF session_id # Absent
           THEN /\ http_sessions' =
                       LET entry == IF session_id \in DOMAIN http_sessions
                                    THEN http_sessions
                                    ELSE insert(http_sessions, session_id,
                                                [last_event_id |-> None])
                       IN  IF last_event_id # Absent
                           THEN insert(entry, session_id, [last_event_id |-> last_event_id])
                           ELSE entry
                /\ stored' = IF session_id \in DOMAIN http_sessions THEN stored
                             ELSE [stored EXCEPT ![session_id] = @ + 1]
                /\ reply' = [NoReply EXCEPT !.status = 200,
                                            !.content_type = "text/event-stream",
                                            !.body = "data: Connected (SSE Placeholder)\n\n"]
           ELSE /\ UNCHANGED <<http_sessions, stored>>
                /\ reply' = [NoReply EXCEPT !.status = 400,
                                            !.body = "mcp-session-id header required"]
        /\ UNCHANGED <<plugins, startup, deleted, txt, info, aside>>

\* The match at the end of handle_streamable_post: 200 with the response as
\* JSON, or 204 when handle_message returned none.
into_response(out) ==
    IF out.some
    THEN [NoReply EXCEPT !.status = 200, !.content_type = "application/json", !.out = out]
    ELSE [NoReply EXCEPT !.status = 204]

\* Variant of handle_streamable_post that answers 404 to a session id it
\* does not know, without dispatching the body.
handle_streamable_post_rejects_unknown(session, body, fs, clock) ==
    LET out == handle_message(body, fs, clock)
        session_id == header_str(session)
        unknown == session_id # Absent /\ session_id \notin DOMAIN http_sessions
    IN  /\ runs(PostRequest(session, body, fs, clock))
        /\ reply' = IF unknown
                    THEN [NoReply EXCEPT !.status = 404, !.body = "Session not found"]
                    ELSE IF out.some
                    THEN [NoReply EXCEPT !.status = 200,
                                         !.content_type = "application/json",
                                         !.out = out]
                    ELSE [NoReply EXCEPT !.status = 204]
        /\ UNCHANGED <<plugins, startup, http_sessions, deleted, stored, txt, info, aside>>

\* Variant of handle_streamable_post that opens a session for an id it does
\* not know.
handle_streamable_post_opens_session(session, body, fs, clock) ==
    LET out == handle_message(body, fs, clock)
        session_id == header_str(session)
    IN  /\ runs(PostRequest(session, body, fs, clock))
        /\ reply' = IF out.some
                    THEN [NoReply EXCEPT !.status = 200,
                                         !.content_type = "application/json",
                                         !.out = out]
                    ELSE [NoReply EXCEPT !.status = 204]
        /\ http_sessions' = IF session_id # Absent /\ session_id \notin DOMAIN http_sessions
                            THEN insert(http_sessions, session_id, [last_event_id |-> None])
                            ELSE http_sessions
        /\ UNCHANGED <<plugins, startup, deleted, stored, txt, info, aside>>

\* Variant of handle_streamable_post that drops a tool from the registry when
\* its call fails.
handle_streamable_post_drops_failed_tool(session, body, fs, clock) ==
    LET out == handle_message(body, fs, clock)
        failed == /\ CallsTool(body) /\ out.some /\ ~out.array
                  /\ out.envelopes[1].result.isError
                  /\ body.values[1].params.name \in DOMAIN plugins
    IN  /\ runs(PostRequest(session, body, fs, clock))
        /\ reply' = IF out.some
                    THEN [NoReply EXCEPT !.status = 200,
                                         !.content_type = "application/json",
                                         !.out = out]
                    ELSE [NoReply EXCEPT !.status = 204]
        /\ plugins' = IF failed THEN remove(plugins, body.values[1].params.name)
                      ELSE plugins
        /\ UNCHANGED <<startup, http_sessions, deleted, stored, txt, info, aside>>

\* Variant of handle_streamable_post that answers 200 with the JSON content
\* type and an empty body when the handler has no response.
handle_streamable_post_always_ok(session, body, fs, clock) ==
    LET out == handle_message(body, fs, clock)
    IN  /\ runs(PostRequest(session, body, fs, clock))
        /\ reply' = [NoReply EXCEPT !.status = 200,
                                    !.content_type = "application/json",
                                    !.out = out]
        /\ UNCHANGED <<plugins, startup, http_sessions, deleted, stored, txt, info, aside>>

\* handle_streamable_post.  fs is what a called plugin finds on disk, clock
\* what the clock shows at each read.
handle_streamable_post(session, body, fs, clock) ==
    /\ runs(PostRequest(session, body, fs, clock))
    /\ reply' = into_response(handle_message(body, fs, clock))
    /\ UNCHANGED <<plugins, startup, http_sessions, deleted, stored, txt, info, aside>>

\* Variant of handle_streamable_delete that answers 200 whether or not the
\* session was there.
handle_streamable_delete_idempotent(session) ==
    LET session_id == header_str(session)
    IN  /\ runs(DeleteRequest(session))
        /\ IF session_id # Absent
           THEN /\ http_sessions' = remove(http_sessions, session_id)
                /\ deleted' = deleted \cup {session_id}
                /\ reply' = [NoReply EXCEPT !.status = 200,
                                            !.body = "Session terminated"]
           ELSE /\ UNCHANGED <<http_sessions, deleted>>
                /\ reply' = [NoReply EXCEPT !.status = 400,
                                            !.body = "mcp-session-id header required"]
        /\ UNCHANGED <<plugins, startup, stored, txt, info, aside>>

\* handle_streamable_delete
handle_streamable_delete(session) ==
    LET session_id == header_str(session)
    IN  /\ runs(DeleteRequest(session))
        /\ IF session_id # Absent
           THEN IF session_id \in DOMAIN http_sessions
                THEN /\ http_sessions' = remove(http_sessions, session_id)
                     /\ deleted' = deleted \cup {session_id}
                     /\ reply' = [NoReply EXCEPT !.status = 200,
                                                 !.body = "Session terminated"]
                ELSE /\ UNCHANGED <<http_sessions, deleted>>
                     /\ reply' = [NoReply EXCEPT !.status = 404,
                                                 !.body = "Session not found"]
           ELSE /\ UNCHANGED <<http_sessions, deleted>>
                /\ reply' = [NoReply EXCEPT !.status = 400,
                                            !.body = "mcp-session-id header required"]
        /\ UNCHANGED <<plugins, startup, stored, txt, info, aside>>

\* McpPlugin::description of each plugin.
description(name) ==
    CASE name = "hello"            -> "AI agent introduction protocol"
      [] name = "website"          ->
            "Access website content including news, about page, contact info, and more"
      [] name = "store_product"    -> "E-commerce product functionality"
      [] name = "store_customer"   -> "E-commerce customer functionality"
      [] name = "store_order"      -> "E-commerce order functionality"
      [] name = "store_review"     -> "E-commerce review functionality"
      [] name = "social"           -> "Social connections and referrals to other services"
      [] name = "weather_forecast" -> "Get weather forecasts for various locations"

\* McpPlugin::category of each plugin.
category(name) ==
    CASE name = "hello"            -> "agent"
      [] name = "website"          -> "content"
      [] name \in {"store_product", "store_customer", "store_order", "store_review"}
                                   -> "commerce"
      [] name = "social"           -> "social"
      [] name = "weather_forecast" -> "weather"

\* discovery_handler (GET /mcpi/discover): the request is counted and answered
\* without an await in between.  The capabilities come in the order of the
\* registry's HashMap, which is no order.
discovery_handler ==
    LET complete == SelectSeq(IF referrals.t = "array" THEN referrals.items ELSE <<>>,
                        LAMBDA r : /\ as_str(get(r, "name")) # Absent
                                   /\ as_str(get(r, "domain")) # Absent
                                   /\ as_str(get(r, "relationship")) # Absent)
    IN  /\ Serving
        /\ request_count < MaxRequests
        /\ request_count' = request_count + 1
        /\ request' = [NoRequest EXCEPT !.verb = "GET", !.path = "/mcpi/discover"]
        /\ reply' = [NoReply EXCEPT
               !.status = 200,
               !.content_type = "application/json",
               !.discovery =
                   [provider |-> [name |-> provider_info.name,
                                  domain |-> provider_info.domain,
                                  description |-> provider_info.description],
                    mode |-> "active",
                    capabilities |->
                        { [name |-> plugin_name(p),
                           description |-> description(plugin_name(p)),
                           category |-> category(plugin_name(p)),
                           operations |-> supported_operations(plugin_name(p))]
                            : p \in get_all_plugins },
                    referrals |->
                        [i \in 1..Len(complete) |->
                            [name |-> as_str(get(complete[i], "name")),
                             domain |-> as_str(get(complete[i], "domain")),
                             relationship |-> as_str(get(complete[i], "relationship"))]]]]
        /\ UNCHANGED <<plugins, startup, http_sessions, suspended, deleted, stored, txt, info, aside>>

\* The bodies POSTed while sessions come and go: a request, a notification,
\* batches with and without answers, and texts that do not parse.
Bodies ==
    { Message("object", TRUE, <<Envelope("2.0", "1", "ping", NoParams)>>),
      Message("object", TRUE, <<Envelope("2.0", "\"a\"", "tools/list", NoParams)>>),
      Message("object", TRUE, <<Envelope("2.0", Absent, "ping", NoParams)>>),
      Message("array", TRUE, <<Envelope("2.0", "1", "ping", NoParams),
                               Envelope("2.0", Absent, "ping", NoParams)>>),
      Message("array", TRUE, <<Envelope("2.0", Absent, "ping", NoParams)>>),
      Message("array", TRUE, <<>>),
      Message("other", FALSE, <<>>) }

\* The server: startup, then any HTTP requests on /mcp, whose handlers
\* interleave at their first await.
Next ==
    \/ RegisterNext
    \/ \E s \in SessionHeaders, e \in EventHeaders : fetch_add(GetRequest(s, e))
    \/ \E s \in SessionHeaders, b \in Bodies :
           \E clock \in Clock(b) : fetch_add(PostRequest(s, b, "ok", clock))
    \/ \E s \in SessionHeaders : fetch_add(DeleteRequest(s))
    \/ \E s \in SessionHeaders, e \in EventHeaders : handle_streamable_get(s, e)
    \/ \E s \in SessionHeaders, b \in Bodies :
           \E clock \in Clock(b) : handle_streamable_post(s, b, "ok", clock)
    \/ \E s \in SessionHeaders : handle_streamable_delete(s)
    \/ discovery_handler

Spec == Init /\ [][Next]_vars

\* The mcp-session-id header of the client that posts the messages.
RpcSession == "s1"

\* The dispatcher: startup, then any message POSTed by one client, one
\* request after the other.
NextRpc ==
    \/ RegisterNext
    \/ \E b \in Messages, fs \in FsStates :
           /\ request_count < MaxRpcRequests
           /\ suspended = EmptyBag
           /\ fs # "ok" => CallsTool(b)
           /\ \E clock \in Clock(b) : fetch_add(PostRequest(RpcSession, b, fs, clock))
    \/ \E b \in Messages, fs \in FsStates :
           \E clock \in Clock(b) : handle_streamable_post(RpcSession, b, fs, clock)

SpecRpc == Init /\ [][NextRpc]_vars

\* discover_mcp_services once the TXT answer is there: the data is unquoted
\* and parsed.  The client discovers once per run.
discover_mcp_services(answer) ==
    /\ info = NoInfo
    /\ txt' = answer
    /\ info' = parse_mcp_txt_record(trim_matches_quote(data_str(answer)))
    /\ UNCHANGED <<server_vars, aside>>

\* The client: the discovery of one run.
NextTxt == \E answer \in TxtRecords : discover_mcp_services(answer)

SpecTxt == Init /\ [][NextTxt]_vars

\* The frames the clients have sent so far.
RECURSIVE frames_sent(_)
frames_sent(conns) ==
    IF conns = {} THEN 0
    ELSE LET c == CHOOSE x \in conns : TRUE
         IN  Len(ws[c].inbox) + Len(ws[c].read) + frames_sent(conns \ {c})

\* ws_handler: the upgrade starts handle_socket, which counts the connection
\* and enters its loop.
ws_handler(c) ==
    /\ Serving
    /\ ws[c].state = "idle"
    /\ ws' = [ws EXCEPT ![c].state = "open"]
    /\ active_ws_connections' = active_ws_connections + 1
    /\ UNCHANGED <<server_vars, client_vars, registration, lifecycle, client_run, deletes>>

\* The client of connection c puts a frame on the wire, or its stream fails
\* or ends; nothing follows the failure or the end.
client_send(c, frame) ==
    /\ ws[c].state \in {"open", "busy"}
    /\ frames_sent(Conns) < MaxFrames
    /\ IF Len(ws[c].inbox) = 0 THEN TRUE
       ELSE ws[c].inbox[Len(ws[c].inbox)].type \notin {"error", "eof"}
    /\ ws' = [ws EXCEPT ![c].inbox = Append(@, frame)]
    /\ UNCHANGED <<server_vars, client_vars, registration, active_ws_connections, lifecycle, client_run, deletes>>

\* Variant of socket_recv that leaves the connection counted when the loop
\* ends on a receive error or the end of the stream.
socket_recv_leaks(c) ==
    /\ ws[c].state = "open"
    /\ ws[c].inbox # <<>>
    /\ LET msg == Head(ws[c].inbox)
       IN  IF msg.type \in {"error", "eof"}
           THEN ws' = [ws EXCEPT ![c].state = "closed", ![c].inbox = Tail(@),
                                 ![c].read = Append(@, msg)]
           ELSE ws' = [ws EXCEPT ![c].state = "busy", ![c].inbox = Tail(@),
                                 ![c].cur = msg, ![c].read = Append(@, msg)]
    /\ UNCHANGED active_ws_connections
    /\ UNCHANGED <<server_vars, client_vars, registration, lifecycle, client_run, deletes>>

\* handle_socket at socket.recv(): Some(Ok(msg)) goes to process_ws_message,
\* Some(Err) and None break the loop, after which the connection is
\* uncounted.
socket_recv(c) ==
    /\ ws[c].state = "open"
    /\ ws[c].inbox # <<>>
    /\ LET msg == Head(ws[c].inbox)
       IN  IF msg.type \in {"error", "eof"}
           THEN /\ ws' = [ws EXCEPT ![c].state = "closed", ![c].inbox = Tail(@),
                                    ![c].read = Append(@, msg)]
                /\ active_ws_connections' = active_ws_connections - 1
           ELSE /\ ws' = [ws EXCEPT ![c].state = "busy", ![c].inbox = Tail(@),
                                    ![c].cur = msg, ![c].read = Append(@, msg)]
                /\ UNCHANGED active_ws_connections
    /\ UNCHANGED <<server_vars, client_vars, registration, lifecycle, client_run, deletes>>

\* The text frame that carries the response of handle_message, if there is
\* one.
text_reply(response) ==
    IF response.some THEN <<[type |-> "text", text |-> response, data |-> ""]>>
    ELSE <<>>

\* The frames process_ws_message sends for msg: the response to a text, if
\* there is one, and the pong to a ping.
ws_replies(msg, clock) ==
    CASE msg.type = "text" -> text_reply(handle_message(msg.text, "ok", clock))
      [] msg.type = "ping" -> <<WsPong(msg.data)>>
      [] OTHER -> <<>>

\* Variant of process_ws_message that puts what it sends in front of what was
\* sent before.
process_ws_message_prepends(c, sent, clock) ==
    /\ ws[c].state = "busy"
    /\ LET msg == ws[c].cur
           replies == ws_replies(msg, clock)
           goes_on == msg.type # "close" /\ (replies = <<>> \/ sent)
       IN  /\ replies = <<>> => sent
           /\ ws' = [ws EXCEPT ![c].state = IF goes_on THEN "open" ELSE "closed",
                               ![c].cur = NoFrame,
                               ![c].outbox = IF sent THEN replies \o @ ELSE @]
           /\ active_ws_connections' =
                  IF goes_on THEN active_ws_connections ELSE active_ws_connections - 1
    /\ UNCHANGED <<server_vars, client_vars, registration, lifecycle, client_run, deletes>>

\* Variant of process_ws_message that ends the loop on a binary frame.
process_ws_message_binary_ends(c, sent, clock) ==
    /\ ws[c].state = "busy"
    /\ LET msg == ws[c].cur
           replies == ws_replies(msg, clock)
           goes_on == msg.type \notin {"close", "binary"} /\ (replies = <<>> \/ sent)
       IN  /\ replies = <<>> => sent
           /\ ws' = [ws EXCEPT ![c].state = IF goes_on THEN "open" ELSE "closed",
                               ![c].cur = NoFrame,
                               ![c].outbox = IF sent THEN @ \o replies ELSE @]
           /\ active_ws_connections' =
                  IF goes_on THEN active_ws_connections ELSE active_ws_connections - 1
    /\ UNCHANGED <<server_vars, client_vars, registration, lifecycle, client_run, deletes>>

\* socket.send of the replies to the frame in hand, and what becomes of the
\* connection: the loop of handle_socket goes on unless the frame is a close
\* or the send failed.
send(c, replies, sent) ==
    /\ replies = <<>> => sent
    /\ ws' = [ws EXCEPT
                 ![c].state = IF ws[c].cur.type # "close" /\ (replies = <<>> \/ sent)
                              THEN "open" ELSE "closed",
                 ![c].cur = NoFrame,
                 ![c].outbox = IF sent THEN @ \o replies ELSE @]
    /\ active_ws_connections' =
           IF ws[c].cur.type # "close" /\ (replies = <<>> \/ sent)
           THEN active_ws_connections ELSE active_ws_connections - 1

\* process_ws_message, and the end of handle_socket when it returns false.
\* sent tells whether socket.send succeeds (TRUE when nothing is sent).
process_ws_message(c, sent, clock) ==
    /\ ws[c].state = "busy"
    /\ send(c, ws_replies(ws[c].cur, clock), sent)
    /\ UNCHANGED <<server_vars, client_vars, registration, lifecycle, client_run, deletes>>

\* The server and its WebSocket clients.
NextWs ==
    \/ RegisterNext
    \/ \E c \in Conns : ws_handler(c)
    \/ \E c \in Conns, frame \in WsFrames : client_send(c, frame)
    \/ \E c \in Conns : socket_recv(c)
    \/ \E c \in Conns, sent \in BOOLEAN :
           \E clock \in Clock(ws[c].cur.text) : process_ws_message(c, sent, clock)

SpecWs == Init /\ [][NextWs]_vars

\* A client connects and sends the request of exchange x: axum::serve accepts
\* it while it runs, and not once the graceful shutdown has begun or the
\* process is gone.
accept(x) ==
    /\ Serving
    /\ lifecycle.exchanges[x] = "none"
    /\ lifecycle' = [lifecycle EXCEPT !.exchanges[x] =
                         IF lifecycle.process = "running" THEN "in_flight" ELSE "refused"]
    /\ UNCHANGED <<server_vars, client_vars, registration, ws, active_ws_connections, client_run, deletes>>

\* The handler of exchange x returns and its response is written.
complete(x) ==
    /\ lifecycle.process \in {"running", "draining"}
    /\ lifecycle.exchanges[x] = "in_flight"
    /\ lifecycle' = [lifecycle EXCEPT !.exchanges[x] = "answered"]
    /\ UNCHANGED <<server_vars, client_vars, registration, ws, active_ws_connections, client_run, deletes>>

\* A signal reaches the process.  shutdown_signal awaits tokio::signal::ctrl_c
\* alone, which resolves on SIGINT and starts the graceful shutdown (a later
\* SIGINT changes nothing); no handler is installed for SIGTERM, whose default
\* action ends the process with whatever it was doing.
shutdown_signal(sig) ==
    /\ Serving
    /\ lifecycle.process \in {"running", "draining"}
    /\ sig = "SIGINT" => lifecycle.process = "running"
    /\ LET in_flight == {x \in Exchanges : lifecycle.exchanges[x] = "in_flight"}
           first == lifecycle.signal = None
       IN  lifecycle' =
              [process |-> IF sig = "SIGINT" THEN "draining" ELSE "killed",
               exchanges |-> IF sig = "SIGINT" THEN lifecycle.exchanges
                             ELSE [x \in Exchanges |->
                                      IF x \in in_flight THEN "lost"
                                      ELSE lifecycle.exchanges[x]],
               signal |-> IF first THEN sig ELSE lifecycle.signal,
               at_signal |-> IF first THEN in_flight ELSE lifecycle.at_signal]
    /\ UNCHANGED <<server_vars, client_vars, registration, ws, active_ws_connections, client_run, deletes>>

\* axum::serve(..).with_graceful_shutdown(..) returns when the connections it
\* had accepted are done, and main returns Ok.
serve_returns ==
    /\ lifecycle.process = "draining"
    /\ \A x \in Exchanges : lifecycle.exchanges[x] # "in_flight"
    /\ lifecycle' = [lifecycle EXCEPT !.process = "exited"]
    /\ UNCHANGED <<server_vars, client_vars, registration, ws, active_ws_connections, client_run, deletes>>

\* The server process from startup to its end.
NextShutdown ==
    \/ RegisterNext
    \/ \E x \in Exchanges : accept(x)
    \/ \E x \in Exchanges : complete(x)
    \/ \E sig \in Signals : shutdown_signal(sig)
    \/ serve_returns

SpecShutdown == Init /\ [][NextShutdown]_vars

\* The rest of the state, which the client run leaves alone.
not_client == <<server_vars, client_vars, registration, ws, active_ws_connections, lifecycle, deletes>>

\* main returns Err(..): the step is recorded and the process exits with 1.
client_fails(step) ==
    [client_run EXCEPT !.pc = "exited", !.exit = 1, !.failed = @ \cup {step}]

\* The step that follows pc when it did not end the run.  The HTTP client
\* tests the batch before it selects the tools, the WebSocket client after.
client_next(pc) ==
    LET ws_order == client_run.protocol = "McpiWebSocket"
    IN  CASE pc = "list_tools" -> IF ws_order THEN "select" ELSE "batch"
          [] pc = "batch"      -> IF ws_order THEN "tools" ELSE "select"
          [] pc = "select"     -> IF ws_order THEN "batch" ELSE "tools"

\* Cli::parse: the options of the run.
cli_parse(domain, base_url, plugin) ==
    /\ client_run.pc = "start"
    /\ client_run' = [client_run EXCEPT !.pc = "dns", !.domain = domain,
                                        !.base_url = base_url, !.plugin = plugin]
    /\ UNCHANGED not_client

\* main, lines 58-89: with --domain, DNS discovery; success selects the
\* WebSocket protocol, failure is printed and the run goes on with the base
\* URL or the localhost defaults.
client_dns_discovery(ok) ==
    /\ client_run.pc = "dns"
    /\ ~client_run.domain => ok
    /\ client_run' =
          [client_run EXCEPT
              !.pc = "discover",
              !.protocol = IF client_run.domain /\ ok THEN "McpiWebSocket" ELSE "McpHttp",
              !.failed = IF client_run.domain /\ ~ok THEN @ \cup {"dns"} ELSE @]
    /\ UNCHANGED not_client

\* main, line 94: discover_service_http(&discovery_url).await?
discover_service_http(ok) ==
    /\ client_run.pc = "discover"
    /\ client_run' = IF ok THEN [client_run EXCEPT !.pc = "connect"]
                     ELSE client_fails("http_discovery")
    /\ UNCHANGED not_client

\* The first step of run_mcp_http_client (GET /mcp: the request, its status,
\* its content type) or of run_mcpi_websocket_client (connect_async).
client_connect(ok) ==
    /\ client_run.pc = "connect"
    /\ client_run' = IF ok THEN [client_run EXCEPT !.pc = "initialize"]
                     ELSE client_fails("connect")
    /\ UNCHANGED not_client

\* initialize: outcome is "result", "error" (the response has an error
\* member), "invalid" (neither member, or a result that does not parse) or
\* "err" (the exchange itself failed).  Only a result lets the run go on.
client_initialize(outcome) ==
    /\ client_run.pc = "initialize"
    /\ client_run' = IF outcome = "result" THEN [client_run EXCEPT !.pc = "list_resources"]
                     ELSE client_fails("initialize")
    /\ UNCHANGED not_client

\* resources/list: an error member or an odd response is printed, a failed
\* exchange ends the run.
client_list_resources(outcome) ==
    /\ client_run.pc = "list_resources"
    /\ client_run' = IF outcome = "err" THEN client_fails("list_resources")
                     ELSE [client_run EXCEPT !.pc = "list_tools"]
    /\ UNCHANGED not_client

\* tools/list: the names of the result are collected; an error member leaves
\* the list empty.
client_list_tools(outcome, names) ==
    /\ client_run.pc = "list_tools"
    /\ outcome # "result" => names = {}
    /\ client_run' = IF outcome = "err" THEN client_fails("list_tools")
                     ELSE [client_run EXCEPT !.pc = client_next("list_tools"),
                                             !.tools = names]
    /\ UNCHANGED not_client

\* The test batch.
client_batch(ok) ==
    /\ client_run.pc = "batch"
    /\ client_run' = IF ok THEN [client_run EXCEPT !.pc = client_next("batch")]
                     ELSE client_fails("batch")
    /\ UNCHANGED not_client

\* tools_to_test: with --plugin, that tool if tools/list named it, else
\* Err("Tool not found"); without, every tool listed.
client_select_tools ==
    /\ client_run.pc = "select"
    /\ client_run' =
          IF client_run.plugin # None /\ client_run.plugin \notin client_run.tools
          THEN client_fails("tool_not_found")
          ELSE [client_run EXCEPT
                   !.pc = client_next("select"),
                   !.tools = IF client_run.plugin # None THEN {client_run.plugin} ELSE @]
    /\ UNCHANGED not_client

\* The tool calls: a failed exchange ends the run, an error in a response is
\* printed.  With no tool to test nothing can fail.
client_test_tools(ok) ==
    /\ client_run.pc = "tools"
    /\ client_run.tools = {} => ok
    /\ client_run' = IF ok THEN [client_run EXCEPT !.pc = "ping"]
                     ELSE client_fails("tool_call")
    /\ UNCHANGED not_client

\* The final ping, after which main returns Ok(()).
client_ping(ok) ==
    /\ client_run.pc = "ping"
    /\ client_run' = IF ok THEN [client_run EXCEPT !.pc = "exited", !.exit = 0]
                     ELSE client_fails("ping")
    /\ UNCHANGED not_client

ClientOutcomes == {"result", "error", "invalid", "err"}

\* One run of the client against any server.
NextClient ==
    \/ \E domain \in BOOLEAN, base_url \in BOOLEAN, plugin \in ClientPlugins :
          cli_parse(domain, base_url, plugin)
    \/ \E ok \in BOOLEAN : client_dns_discovery(ok)
    \/ \E ok \in BOOLEAN : discover_service_http(ok)
    \/ \E ok \in BOOLEAN : client_connect(ok)
    \/ \E outcome \in ClientOutcomes : client_initialize(outcome)
    \/ \E outcome \in ClientOutcomes : client_list_resources(outcome)
    \/ \E outcome \in ClientOutcomes, names \in SUBSET ClientTools :
          client_list_tools(outcome, names)
    \/ \E ok \in BOOLEAN : client_batch(ok)
    \/ client_select_tools
    \/ \E ok \in BOOLEAN : client_test_tools(ok)
    \/ \E ok \in BOOLEAN : client_ping(ok)

SpecClient == Init /\ [][NextClient]_vars

\* handle_streamable_delete up to its lock: the request is counted and the
\* mcp-session-id header read.
delete_begin(t, session) ==
    /\ Serving
    /\ deletes[t].pc = "idle"
    /\ request_count' = request_count + 1
    /\ deletes' = [deletes EXCEPT ![t].pc = "begun", ![t].session = header_str(session),
                                  ![t].known = header_str(session) \in DOMAIN http_sessions]
    /\ UNCHANGED <<plugins, startup, http_sessions, suspended, request, reply, deleted, stored,
                   client_vars, registration, ws, active_ws_connections, lifecycle,
                   client_run>>

\* Variant of state.http_sessions.write().await.remove(session_id) that goes
\* by what the table held when the request began.
delete_remove_from_snapshot(t) ==
    /\ deletes[t].pc = "begun"
    /\ deletes[t].session # Absent
    /\ http_sessions' = IF deletes[t].session \in DOMAIN http_sessions
                        THEN remove(http_sessions, deletes[t].session)
                        ELSE http_sessions
    /\ deleted' = IF deletes[t].known THEN deleted \cup {deletes[t].session} ELSE deleted
    /\ deletes' = [deletes EXCEPT ![t].pc = "removed", ![t].removed = deletes[t].known,
                                  ![t].epoch = stored[deletes[t].session]]
    /\ UNCHANGED <<plugins, startup, request_count, suspended, request, reply, stored,
                   client_vars, registration, ws, active_ws_connections, lifecycle,
                   client_run>>

\* state.http_sessions.write().await.remove(session_id).is_some(): one step
\* under the write lock.
delete_remove(t) ==
    /\ deletes[t].pc = "begun"
    /\ deletes[t].session # Absent
    /\ LET there == deletes[t].session \in DOMAIN http_sessions
       IN  /\ http_sessions' = IF there THEN remove(http_sessions, deletes[t].session)
                               ELSE http_sessions
           /\ deleted' = IF there THEN deleted \cup {deletes[t].session} ELSE deleted
           /\ deletes' = [deletes EXCEPT ![t].pc = "removed", ![t].removed = there,
                                         ![t].epoch = stored[deletes[t].session]]
    /\ UNCHANGED <<plugins, startup, request_count, suspended, request, reply, stored,
                   client_vars, registration, ws, active_ws_connections, lifecycle,
                   client_run>>

\* The response: 200 when remove() returned an entry, 404 when it did not,
\* 400 when the header was missing.
delete_respond(t) ==
    /\ \/ deletes[t].pc = "removed"
       \/ deletes[t].pc = "begun" /\ deletes[t].session = Absent
    /\ deletes' = [deletes EXCEPT
                      ![t].pc = "done",
                      ![t].status = IF deletes[t].session = Absent THEN 400
                                    ELSE IF deletes[t].removed THEN 200 ELSE 404]
    /\ UNCHANGED <<server_vars, client_vars, registration, ws, active_ws_connections,
                   lifecycle, client_run>>

\* The body POSTed between the DELETE requests.  handle_streamable_post only
\* reads the session table, whatever the body.
PingBody == Message("object", TRUE, <<Envelope("2.0", "1", "ping", NoParams)>>)

\* The requests the router serves, in any order and interleaved at their
\* awaits; each DELETE is followed through its own awaits.
NextDelete ==
    \/ RegisterNext
    \/ \E s \in SessionHeaders, e \in EventHeaders : fetch_add(GetRequest(s, e))
    \/ \E s \in SessionHeaders, e \in EventHeaders : handle_streamable_get(s, e)
    \/ \E s \in SessionHeaders, clock \in Clock(PingBody) :
           fetch_add(PostRequest(s, PingBody, "ok", clock))
    \/ \E s \in SessionHeaders, clock \in Clock(PingBody) :
           handle_streamable_post(s, PingBody, "ok", clock)
    \/ discovery_handler
    \/ \E t \in DeleteTasks, s \in SessionHeaders : delete_begin(t, s)
    \/ \E t \in DeleteTasks : delete_remove(t)
    \/ \E t \in DeleteTasks : delete_respond(t)

SpecDelete == Init /\ [][NextDelete]_vars

\* The registry under any sequence of register_plugin calls.
NextRegistry == \E plugin \in TestPlugins : RegisterPlugin(plugin)

SpecRegistry == Init /\ [][NextRegistry]_vars

-----------------------------------------------------------------------------
(* Vocabulary of the properties *)

\* The request that moved last has its answer: request and reply belong
\* together, and the request came on /mcp with the given verb.
Answered(verb) == request.verb = verb /\ request.path = "/mcp" /\ reply.status # 0

\* The request answered last was a POST whose body is one JSON object.
PostedObject ==
    /\ Answered("POST")
    /\ request.body.form = "object"
    /\ request.body.valid
    /\ Len(request.body.values) = 1

\* The request answered last was a POST whose body is a JSON array.
PostedArray ==
    /\ Answered("POST")
    /\ request.body.form = "array"
    /\ request.body.valid

\* The object posted, and the one envelope answered.
Posted == request.body.values[1]
Answer == reply.out.envelopes[1]

\* A well-formed JSON-RPC request with a string or number id.
WellFormedRequest(v) ==
    /\ v.obj
    /\ v.jsonrpc = "2.0"
    /\ v.id \notin {Absent, "null"}
    /\ v.method \notin {Absent, NonString}

\* A notification: an envelope with no id member.
Notification(v) == v.obj /\ v.id = Absent

\* The handler answered with exactly one envelope, not an array.
OneAnswer ==
    /\ reply.out.some
    /\ ~reply.out.array
    /\ Len(reply.out.envelopes) = 1

\* sub occurs in s.
Contains(s, sub) ==
    \E i \in 1..(Len(s) - Len(sub) + 1) : SubSeq(s, i, i + Len(sub) - 1) = sub

\* The ids of a sequence of envelopes, in order.
IdsOf(envelopes) == [i \in 1..Len(envelopes) |-> envelopes[i].id]

\* The element carries an id (a member "id" that is not null).
CarriesId(v) == v.obj /\ v.id \notin {Absent, "null"}

-----------------------------------------------------------------------------
(* Properties *)

\* C1: a well-formed request with a string or number id, sent as a single
\* message, gets exactly one response, and the response carries the same id,
\* whatever the method.
C1_SingleRequestAnsweredWithSameId ==
    (PostedObject /\ WellFormedRequest(Posted))
        => (OneAnswer /\ Answer.id = Posted.id)

\* C1 witness: an unknown method with a string id was answered with that id.
C1_Witness ==
    /\ PostedObject /\ WellFormedRequest(Posted)
    /\ Posted.method = "foo" /\ Posted.id = "\"a\""
    /\ OneAnswer /\ Answer.id = "\"a\""

\* C2 (as claimed): a notification never produces a response, neither as a
\* single message nor when a batch holds nothing but notifications.
C2_NotificationNeverAnswered ==
    /\ (PostedObject /\ Notification(Posted)) => ~reply.out.some
    /\ (PostedArray /\ \A i \in 1..Len(request.body.values) :
                            Notification(request.body.values[i]))
           => ~reply.out.some

\* C3: a batch of n elements of which k carry an id is answered with exactly
\* k responses whose ids follow the order of the requests; the responses come
\* as an array (with k = 0 there is no response at all).
C3_BatchAnswersInOrder ==
    PostedArray =>
        LET k == Len(SelectSeq(request.body.values, CarriesId))
        IN  /\ Len(reply.out.envelopes) = k
            /\ IdsOf(reply.out.envelopes) = IdsOf(SelectSeq(request.body.values, CarriesId))
            /\ k >= 1 => (reply.out.some /\ reply.out.array)
            /\ k = 0 => ~reply.out.some

\* C3 witness: a batch of a notification and two requests with different ids,
\* or of two requests, answered by two responses.
C3_Witness ==
    /\ PostedArray
    /\ Len(SelectSeq(request.body.values, CarriesId)) = 2
    /\ reply.out.array
    /\ IdsOf(reply.out.envelopes) = <<"\"a\"", "2">>

\* C4: every response envelope holds exactly one of result and error.
C4_ResultXorError ==
    \A i \in 1..Len(reply.out.envelopes) :
        reply.out.envelopes[i].result.present # reply.out.envelopes[i].error.present

\* C4 witness: a batch answered with a result envelope and an error envelope.
C4_Witness ==
    /\ PostedArray
    /\ Len(reply.out.envelopes) = 2
    /\ reply.out.envelopes[1].result.present
    /\ reply.out.envelopes[2].error.present

\* The tools/call posted has a name and arguments.
PostedCall ==
    /\ PostedObject /\ WellFormedRequest(Posted)
    /\ Posted.method = "tools/call"
    /\ Posted.params.present /\ Posted.params.object
    /\ Posted.params.name \notin {Absent, NonString}
    /\ Posted.params.arguments # Absent

\* The operation a tools/call asks for.
PostedOperation ==
    IF Posted.params.operation \in {Absent, NonString} THEN "DEFAULT"
    ELSE Posted.params.operation

\* C5: when tools/call names a registered tool and the plugin's execute fails,
\* the response is a result envelope with isError = true and exactly one Text
\* content item whose text begins with "Exec err: ".
C5_ToolFailureIsResult ==
    (/\ PostedCall
     /\ Posted.params.name \in DOMAIN plugins
     /\ ~execute(plugins[Posted.params.name], PostedOperation, Posted.params,
                 request.fs, Head(request.clock)).ok)
        => /\ OneAnswer
           /\ Answer.result.present /\ ~Answer.error.present
           /\ Answer.result.isError
           /\ Len(Answer.result.content) = 1
           /\ Answer.result.content[1].type = "text"
           /\ starts_with(Answer.result.content[1].text, "Exec err: ")

\* C5 witness: the website tool could not read its data file.
C5_Witness ==
    /\ PostedCall
    /\ Posted.params.name = "website" /\ PostedOperation = "GET"
    /\ request.fs = "missing"
    /\ Answer.result.isError

\* C6 (as claimed): tools/call with a name that is no registered tool gets an
\* error envelope with code -32602 whose message names the tool, and no result.
C6_UnknownToolIsInvalidParams ==
    (PostedCall /\ Posted.params.name \notin DOMAIN plugins)
        => /\ OneAnswer
           /\ Answer.error.present /\ ~Answer.result.present
           /\ Answer.error.code = -32602
           /\ Contains(Answer.error.message, Posted.params.name)

\* The method names process_mcp_message has an arm for.
SupportedMethods ==
    { "initialize", "resources/list", "resources/read", "tools/list", "tools/call",
      "completions", "ping" }

\* C7: a request whose method is none of the supported ones gets an error
\* envelope with code -32601, the message "Method not found: <method>" and the
\* id of the request.
C7_UnknownMethod ==
    (PostedObject /\ WellFormedRequest(Posted) /\ Posted.method \notin SupportedMethods)
        => /\ OneAnswer
           /\ Answer.error.present /\ ~Answer.result.present
           /\ Answer.error.code = -32601
           /\ Answer.error.message = "Method not found: " \o Posted.method
           /\ Answer.id = Posted.id

\* C7 witness: the method foo, sent with a string id.
C7_Witness ==
    /\ PostedObject /\ WellFormedRequest(Posted)
    /\ Posted.method = "foo" /\ Posted.id = "\"a\""
    /\ Answer.error.code = -32601
    /\ Answer.error.message = "Method not found: foo"

\* The result each method of the protocol answers with.
ResultKindOf(method) ==
    CASE method = "initialize" -> "InitializeResult"
      [] method = "resources/list" -> "ListResourcesResult"
      [] method = "resources/read" -> "ReadResourceResult"
      [] method = "tools/list" -> "ListToolsResult"
      [] method = "tools/call" -> "CallToolResult"
      [] method = "completion/complete" -> "CompleteResult"
      [] method = "ping" -> "EmptyResult"

\* C8 (as claimed): completion/complete with valid params is routed to the
\* completion handler and answered with a result {completion:{values}}, like
\* initialize, the list methods and ping are routed to theirs.
C8_CompletionCompleteRouted ==
    (/\ PostedObject /\ WellFormedRequest(Posted)
     /\ \/ Posted.method \in {"initialize", "resources/list", "tools/list", "ping"}
        \/ Posted.method = "completion/complete" /\ CompleteRequestParams_ok(Posted.params))
        => /\ OneAnswer
           /\ Answer.result.present /\ ~Answer.error.present
           /\ Answer.result.kind = ResultKindOf(Posted.method)

\* The URI of the resources/read posted fails one of the checks: it is missing,
\* does not parse, has another scheme than mcpi, or a path that does not
\* begin /resources/<plugin>/<suffix>.
PostedUriRejected ==
    \/ Posted.params.uri \in {Absent, NonString}
    \/ ~Url_parse(Posted.params.uri).ok
    \/ Url_parse(Posted.params.uri).scheme # "mcpi"
    \/ Len(Url_parse(Posted.params.uri).path_segments) < 3
    \/ Url_parse(Posted.params.uri).path_segments[1] # "resources"

\* The plugin named by the URI is registered and reads the suffix.
PostedUriResolves ==
    LET path == Url_parse(Posted.params.uri).path_segments
    IN  /\ path[2] \in DOMAIN plugins
        /\ read_resource(plugins[path[2]], join(SubSeq(path, 3, Len(path)))).ok

\* C9: resources/read answers with an error envelope when the URI fails the
\* checks, and otherwise with a result exactly when the plugin is registered
\* and its read_resource resolves the suffix.
C9_ReadResource ==
    (PostedObject /\ WellFormedRequest(Posted) /\ Posted.method = "resources/read")
        => /\ OneAnswer
           /\ Answer.result.present # Answer.error.present
           /\ PostedUriRejected => Answer.error.present
           /\ ~PostedUriRejected => (Answer.result.present <=> PostedUriResolves)

\* C9 witness: a URI that passes the checks and names a registered plugin,
\* whose read_resource did not resolve the suffix.
C9_Witness ==
    /\ PostedObject /\ WellFormedRequest(Posted) /\ Posted.method = "resources/read"
    /\ ~PostedUriRejected
    /\ Url_parse(Posted.params.uri).path_segments[2] = "weather_forecast"
    /\ Answer.error.present /\ Answer.error.code = 100

\* C10 (as claimed): GET /mcp without an mcp-session-id header answers 200,
\* returns a fresh session id in the mcp-session-id response header, and the
\* session is in the table afterwards.
C10_GetWithoutIdProvisionsSession ==
    (Answered("GET") /\ header_str(request.session) = Absent)
        => /\ reply.status = 200
           /\ reply.session # Absent
           /\ reply.session \in DOMAIN http_sessions

\* The session id of the last request, as the handlers read the header.
SessionId == header_str(request.session)

\* This step answers one HTTP request on /mcp with the given verb: its
\* handler goes on from its first await, or runs from its start, to its end.
Handles(verb) ==
    /\ \/ BagCardinality(suspended') < BagCardinality(suspended)
       \/ request_count' = request_count + 1
    /\ request'.verb = verb /\ request'.path = "/mcp" /\ reply'.status # 0

\* C11: DELETE /mcp with the id of a known session answers 200 and removes
\* that session (and no other); with an id that is not in the table it
\* answers 404, without a usable mcp-session-id header 400, and in both cases
\* the table stays as it was.
C11_DeleteSession ==
    [][ Handles("DELETE") =>
          LET id == header_str(request'.session)
          IN  /\ id \in DOMAIN http_sessions =>
                    /\ reply'.status = 200
                    /\ DOMAIN http_sessions' = DOMAIN http_sessions \ {id}
                    /\ \A k \in DOMAIN http_sessions' : http_sessions'[k] = http_sessions[k]
              /\ (id # Absent /\ id \notin DOMAIN http_sessions) =>
                    (reply'.status = 404 /\ http_sessions' = http_sessions)
              /\ id = Absent =>
                    (reply'.status = 400 /\ http_sessions' = http_sessions) ]_vars

\* C11 witness: a second DELETE of an id that a DELETE removed before was
\* answered 404.
C11_Witness ==
    /\ Answered("DELETE")
    /\ SessionId \in deleted
    /\ reply.status = 404

\* C12 (as claimed): a POST bearing an id that is not in the session table is
\* answered 404 and its body is not dispatched.
C12_PostUnknownSessionRejected ==
    (Answered("POST") /\ SessionId # Absent /\ SessionId \notin DOMAIN http_sessions)
        => (reply.status = 404 /\ ~reply.out.some)

\* C13: a POST whose mcp-session-id names no known session is processed like
\* any other: the body is dispatched, and the answer is 200 with the JSON-RPC
\* response, or 204 when there is none.
C13_PostUnknownSessionProcessed ==
    (Answered("POST") /\ SessionId # Absent /\ SessionId \notin DOMAIN http_sessions)
        => LET out == handle_message(request.body, request.fs, request.clock)
           IN  /\ reply.out = out
               /\ reply.status = IF out.some THEN 200 ELSE 204

\* C13 witness: a ping POSTed with an id that DELETE had removed got its
\* result with 200.
C13_Witness ==
    /\ Answered("POST")
    /\ SessionId \in deleted /\ SessionId \notin DOMAIN http_sessions
    /\ reply.status = 200
    /\ reply.out.envelopes[1].result.kind = "EmptyResult"

\* C14 (as claimed): a GET bearing an mcp-session-id that is not in the
\* session table is rejected and adds no entry to the table.
C14_GetUnknownSessionRejected ==
    [][ (/\ Handles("GET")
         /\ header_str(request'.session) # Absent
         /\ header_str(request'.session) \notin DOMAIN http_sessions)
        => (reply'.status >= 400 /\ http_sessions' = http_sessions) ]_vars

\* C15 (as claimed): an id that DELETE removed never becomes a known session
\* again.
C15_DeletedIdNeverKnownAgain == deleted \cap DOMAIN http_sessions = {}

\* C16: a POST leaves the session table as it was: the same ids, each with
\* the same last-event-id.
C16_PostLeavesSessions ==
    [][ Handles("POST") => http_sessions' = http_sessions ]_vars

\* C16 witness: a POST bearing the id of a session with a recorded
\* last-event-id was answered, next to another session.
C16_Witness ==
    /\ Answered("POST")
    /\ SessionId \in DOMAIN http_sessions
    /\ http_sessions[SessionId].last_event_id = "e1"
    /\ Cardinality(DOMAIN http_sessions) = 2
    /\ reply.status = 200

\* What tools/list and resources/list return in this state.
ToolsListed ==
    handle_list_tools(MCPRequest(Envelope("2.0", "0", "tools/list", NoParams))).result.values
ResourcesListed ==
    handle_list_resources(MCPRequest(Envelope("2.0", "0", "resources/list", NoParams))).result.values

\* C17: once the server serves, no message changes what tools/list and
\* resources/list return.
C17_ListsUnchanged ==
    [][ Serving => (ToolsListed' = ToolsListed /\ ResourcesListed' = ResourcesListed) ]_vars

\* C17 witness: a failed tools/call was handled after another message and all
\* the tools are still listed.
C17_Witness ==
    /\ request_count = 2
    /\ PostedCall /\ Answer.result.isError
    /\ ToolsListed = PluginNames
    /\ Cardinality(ResourcesListed) = Len(PluginOrder)

\* The parts of the record parsed last that have the given key.
PartsWithKey(key) ==
    { i \in 1..Len(txt.parts) : txt.parts[i].eq /\ txt.parts[i].key = key }

\* The record parsed last is made of key=value pairs only.
AllPairs == \A i \in 1..Len(txt.parts) : txt.parts[i].eq

\* The url value is a URL with one of the accepted schemes.
Accepted(url) ==
    Url_scheme(url).ok /\ Url_scheme(url).scheme \in {"ws", "wss", "http", "https"}

\* C19: a record of key=value pairs that holds one v=X and one url=Y with an
\* accepted scheme parses to version X and endpoint Y, wherever the two pairs
\* stand among the other pairs and whatever whitespace surrounds and separates
\* them.
C19_TxtOrderAndUnknownKeys ==
    (/\ info # NoInfo /\ AllPairs
     /\ Cardinality(PartsWithKey("v")) = 1 /\ Cardinality(PartsWithKey("url")) = 1
     /\ \A i \in PartsWithKey("url") : Accepted(txt.parts[i].value))
        => /\ info.ok
           /\ \A i \in PartsWithKey("v") : info.version = txt.parts[i].value
           /\ \A i \in PartsWithKey("url") : info.endpoint = txt.parts[i].value

\* C19 witness: url first, an unknown pair in the middle, v last, with
\* whitespace before, between and after.
C19_Witness ==
    /\ Len(txt.parts) = 3
    /\ txt.parts[1].key = "url" /\ txt.parts[2].key = "extra" /\ txt.parts[3].key = "v"
    /\ txt.lead = "  " /\ txt.sep = " \t " /\ txt.trail = " \n"
    /\ info.ok /\ info.version = "mcp2" /\ info.endpoint = "wss://secure.mcp.org/path"

\* C20: a record with one url=Y with an accepted scheme and no v key parses
\* to version "mcp1" and endpoint Y.
C20_TxtDefaultVersion ==
    (/\ info # NoInfo
     /\ PartsWithKey("v") = {} /\ Cardinality(PartsWithKey("url")) = 1
     /\ \A i \in PartsWithKey("url") : Accepted(txt.parts[i].value))
        => /\ info.ok
           /\ info.version = "mcp1"
           /\ \A i \in PartsWithKey("url") : info.endpoint = txt.parts[i].value

\* C20 witness: the record is the url pair alone.
C20_Witness ==
    /\ Len(txt.parts) = 1 /\ txt.parts[1].key = "url"
    /\ info.ok /\ info.version = "mcp1" /\ info.endpoint = "http://mcp.test/api?a=b"

\* C21: a record with no url key never yields a service record: the parse
\* fails with an error containing "No endpoint URL (url=...) found", whatever
\* other parts it has.
C21_TxtWithoutUrlFails ==
    (info # NoInfo /\ PartsWithKey("url") = {})
        => /\ ~info.ok
           /\ info.endpoint = ""
           /\ Contains(info.error, "No endpoint URL (url=...) found")

\* C21 witness: a record with a version, an unknown pair and the bare word
\* url.
C21_Witness ==
    /\ Len(txt.parts) = 3
    /\ PartsWithKey("v") # {} /\ PartsWithKey("extra") # {}
    /\ \E i \in 1..3 : txt.parts[i] = Part("url", FALSE, "")
    /\ ~info.ok /\ info.error = "No endpoint URL (url=...) found in TXT record"

\* C22: the parse succeeds only with an endpoint whose scheme is ws, wss, http
\* or https; a record whose url has another scheme fails with an error
\* containing "Invalid endpoint protocol scheme: '<scheme>'".
C22_TxtSchemeChecked ==
    /\ info.ok => Accepted(info.endpoint)
    /\ (info # NoInfo /\ Cardinality(PartsWithKey("url")) = 1)
         => \A i \in PartsWithKey("url") :
              LET u == Url_scheme(txt.parts[i].value)
              IN  (u.ok /\ u.scheme \notin {"ws", "wss", "http", "https"})
                    => /\ ~info.ok
                       /\ Contains(info.error,
                              "Invalid endpoint protocol scheme: '" \o u.scheme \o "'")

\* C22 witness: the ftp url of the repository's test.
C22_Witness ==
    /\ Len(txt.parts) = 2
    /\ txt.parts[1].key = "v" /\ txt.parts[2].value = "ftp://mcp.example.com/discover"
    /\ ~info.ok
    /\ Contains(info.error, "Invalid endpoint protocol scheme: 'ftp'")

\* C23: names are unique and case-sensitive: register_plugin with a name that
\* is taken returns an error and leaves the registry as it was, with a free
\* name it binds the name to the plugin, and a name once bound stays bound to
\* the plugin registered first.
C23_RegisterKeepsFirst ==
    [][ /\ \A n \in DOMAIN plugins : n \in DOMAIN plugins' /\ plugins'[n] = plugins[n]
        /\ (registration' # registration \/ plugins' # plugins) =>
              LET p == registration'.plugin
                  n == plugin_name(p)
              IN  /\ n \in DOMAIN plugins => (~registration'.ok /\ plugins' = plugins)
                  /\ n \notin DOMAIN plugins =>
                        /\ registration'.ok
                        /\ DOMAIN plugins' = DOMAIN plugins \cup {n}
                        /\ plugins'[n] = p ]_vars

\* C23 witness: hello and Hello are both registered, and a second plugin named
\* hello was refused while the first one stayed.
C23_Witness ==
    /\ {"hello", "Hello"} \subseteq DOMAIN plugins
    /\ plugins["hello"] = "hello"
    /\ registration = [plugin |-> "hello#2", ok |-> FALSE]

\* C24: a text that is not valid JSON, or whose outer level is neither an
\* array nor an object, gets exactly one response: a single error envelope (no
\* array) with id null and code -32700.
C24_ParseErrorEnvelope ==
    (Answered("POST") /\ (~request.body.valid \/ request.body.form = "other"))
        => /\ OneAnswer
           /\ Answer.id = "null"
           /\ Answer.error.present /\ ~Answer.result.present
           /\ Answer.error.code = -32700

\* C24 witness: a text in brackets that is no JSON array.
C24_Witness ==
    /\ Answered("POST")
    /\ request.body.form = "array" /\ ~request.body.valid
    /\ OneAnswer /\ Answer.error.message = "Parse error: Invalid batch"

\* An envelope that is no request: no object, or no method string.
InvalidEnvelope(v) == ~v.obj \/ v.method \in {Absent, NonString}

\* The answer to an invalid envelope as claimed: an error with code -32700 or
\* -32600 and id null.
InvalidEnvelopeAnswer(e) ==
    e.error.present /\ e.error.code \in {-32700, -32600} /\ e.id = "null"

\* C25 (as claimed): an invalid envelope is answered with an error of code
\* -32700 or -32600 and id null, when sent alone and when an element of a
\* batch.
C25_InvalidEnvelopeNullId ==
    /\ (PostedObject /\ InvalidEnvelope(Posted))
         => (OneAnswer /\ InvalidEnvelopeAnswer(Answer))
    /\ PostedArray
         => Len(SelectSeq(reply.out.envelopes, InvalidEnvelopeAnswer))
              >= Len(SelectSeq(request.body.values, InvalidEnvelope))

\* The params of the request posted are bad for its method.
PostedBadParams ==
    \/ /\ Posted.method = "initialize"
       /\ ~(Posted.params.present /\ Posted.params.object) \/ Posted.params = EmptyParams
    \/ /\ Posted.method = "resources/read"
       /\ Posted.params.uri \in {Absent, NonString}
    \/ /\ Posted.method = "tools/call"
       /\ Posted.params.name \in {Absent, NonString} \/ Posted.params.arguments = Absent
    \/ /\ Posted.method = "completions"
       /\ ~CompleteRequestParams_ok(Posted.params)

\* C26 (as claimed): a known method called with bad params is answered with an
\* error envelope of code -32602.
C26_BadParamsInvalidParams ==
    (PostedObject /\ WellFormedRequest(Posted) /\ PostedBadParams)
        => /\ OneAnswer
           /\ Answer.error.present /\ ~Answer.result.present
           /\ Answer.error.code = -32602

\* The text frames among frames, in order.
TextFrames(frames) == SelectSeq(frames, LAMBDA f : f.type = "text")

\* The frames connection c has read and finished processing.
Processed(c) ==
    IF ws[c].state = "busy" THEN SubSeq(ws[c].read, 1, Len(ws[c].read) - 1)
    ELSE ws[c].read

\* The responses owed to the text frames of frames, in the order of the
\* frames.  None of the texts sent here has a plugin read the clock.
RECURSIVE ResponsesTo(_)
ResponsesTo(frames) ==
    IF frames = <<>> THEN <<>>
    ELSE (IF frames[1].type = "text"
          THEN ws_replies(frames[1], CHOOSE clock \in Clock(frames[1].text) : TRUE)
          ELSE <<>>)
             \o ResponsesTo(Tail(frames))

\* s is t, or t without its last element.
AllButLastOrAll(s, t) ==
    \/ s = t
    \/ Len(t) > 0 /\ s = SubSeq(t, 1, Len(t) - 1)

\* C27: on one WebSocket connection the text responses sent so far are the
\* responses to the text frames read and processed so far, in the order the
\* frames arrived; while the server works on a frame, and whenever it is about
\* to read the next one, every earlier text frame has its response on the wire
\* (a connection that ended on a failed send lacks the last response only).
C27_WsResponsesInRequestOrder ==
    \A c \in Conns :
        IF ws[c].state = "closed"
        THEN AllButLastOrAll(TextFrames(ws[c].outbox), ResponsesTo(ws[c].read))
        ELSE TextFrames(ws[c].outbox) = ResponsesTo(Processed(c))

\* C27 witness: a connection has answered two requests with different ids and
\* is processing a third frame.
C27_Witness ==
    \E c \in Conns :
        /\ ws[c].state = "busy"
        /\ Len(TextFrames(ws[c].outbox)) = 2
        /\ TextFrames(ws[c].outbox)[1].text.envelopes[1].id
               # TextFrames(ws[c].outbox)[2].text.envelopes[1].id
        /\ Len(ws[c].read) = 3

\* The tools/call posted asks a registered JSON-backed tool, whose data file
\* loads, to GET an id that no item has.
PostedGetOfNoItem ==
    /\ PostedCall
    /\ Posted.params.name \in DOMAIN plugins
    /\ plugins[Posted.params.name] \in JsonPlugins
    /\ PostedOperation = "GET"
    /\ request.fs = "ok"
    /\ Posted.params.arg_id \notin {Absent, NonString} \cup DataIds

\* C28 (as claimed): tools/call with operation GET on a JSON-backed tool and
\* an id that matches no item is answered with a result envelope whose isError
\* is false and whose one Text content is the object
\* {error: "Item not found", id: <the requested id>}.
C28_GetNotFoundIsResult ==
    PostedGetOfNoItem
        => /\ OneAnswer
           /\ Answer.result.present /\ ~Answer.error.present
           /\ ~Answer.result.isError
           /\ Answer.result.content
                  = <<Text(pretty2("error", "Item not found", "id", Posted.params.arg_id))>>

\* C29: POST /mcp is answered 204 with no body and no content type exactly
\* when the handler produced no response, which is the case of a batch of
\* notifications only; every other POST is answered 200 with content type
\* application/json and the handler's response as its body.
C29_PostStatusFollowsHandler ==
    Answered("POST") =>
        /\ reply.status \in {200, 204}
        /\ reply.status = 204 <=> ~handle_message(request.body, request.fs, request.clock).some
        /\ reply.status = 204
               => (reply.body = "" /\ reply.content_type = Absent /\ ~reply.out.some)
        /\ reply.status = 200
               => /\ reply.content_type = "application/json"
                  /\ reply.out.some
                  /\ reply.out = handle_message(request.body, request.fs, request.clock)
        /\ (PostedArray /\ \A i \in 1..Len(request.body.values) :
                                Notification(request.body.values[i]))
               => reply.status = 204

\* C29 witness: a batch of one notification was answered 204 with no body.
C29_Witness ==
    /\ PostedArray
    /\ Len(request.body.values) = 1 /\ Notification(request.body.values[1])
    /\ reply.status = 204 /\ reply.body = "" /\ reply.content_type = Absent

\* C30 (as claimed): once SIGINT or SIGTERM has reached the server, no new
\* exchange is begun, no exchange that was in flight at the signal goes
\* without its response, and a process that has ended has answered them all.
C30_GracefulShutdown ==
    lifecycle.signal # None =>
        /\ \A x \in lifecycle.at_signal :
               lifecycle.exchanges[x] \in {"in_flight", "answered"}
        /\ \A x \in Exchanges :
               lifecycle.exchanges[x] = "in_flight" => x \in lifecycle.at_signal
        /\ lifecycle.process \in {"exited", "killed"}
               => \A x \in lifecycle.at_signal : lifecycle.exchanges[x] = "answered"

\* C31 (as claimed): a run of the client in which DNS discovery, HTTP
\* discovery or initialize failed, or in which --plugin names no listed tool,
\* does not exit with 0; a run that exits with 0 went through the whole
\* sequence and none of its steps failed.
C31_ClientExitStatus ==
    client_run.pc = "exited" =>
        /\ (client_run.failed \cap {"dns", "http_discovery", "initialize", "tool_not_found"})
               # {} => client_run.exit # 0
        /\ client_run.exit = 0 => client_run.failed = {}

\* The tool-name context of the completion request posted (None without one).
PostedToolContext ==
    IF Posted.params.name \in {Absent, NonString} THEN None ELSE Posted.params.name

\* The values the completion semantics give the request posted.
CompletionValues ==
    IF Posted.params.argName = "name" /\ PostedToolContext = None
    THEN { n \in DOMAIN plugins : starts_with(n, Posted.params.argValue) }
    ELSE IF PostedToolContext \in DOMAIN plugins
    THEN get_completions(plugins[PostedToolContext], Posted.params.argName,
                         Posted.params.argValue)
    ELSE {}

\* The request posted is a completion request, under the given method name,
\* whose params parse.
PostedCompletion(method) ==
    /\ PostedObject /\ WellFormedRequest(Posted)
    /\ Posted.method = method
    /\ CompleteRequestParams_ok(Posted.params)

\* C32 (as claimed): a completion/complete request whose params parse is
\* answered with a result whose values are the registered tool names that
\* start with argument.value when argument.name is "name" and there is no
\* tool-name context, the completions of the plugin the context names when it
\* names a registered tool, and no values in every other case.
C32_CompletionSemantics ==
    PostedCompletion("completion/complete")
        => /\ OneAnswer
           /\ Answer.result.present /\ ~Answer.error.present
           /\ Answer.result.values = CompletionValues

\* Connection c sends frame and its loop goes on, or the send fails and the
\* loop ends with nothing sent.
SendsOrEnds(c, frame) ==
    \/ ws'[c].outbox = Append(ws[c].outbox, frame) /\ ws'[c].state = "open"
    \/ ws'[c].outbox = ws[c].outbox /\ ws'[c].state = "closed"

\* Connection c sends nothing and its loop goes on.
GoesOnSilently(c) ==
    ws'[c].outbox = ws[c].outbox /\ ws'[c].state = "open"

\* C33: in the WebSocket read loop a Text frame goes to the message handler
\* and the handler's response, if there is one, is sent back; a Binary frame
\* (like a Pong) sends nothing and the loop goes on; a Ping is answered with a
\* Pong of the same payload; a Close frame ends the loop, as do a receive
\* error and the end of the stream, and nothing else does but a failed send.
C33_WsFrameHandling ==
    [][ \A c \in Conns :
          /\ (ws[c].state = "busy" /\ ws'[c].state # "busy") =>
                LET msg == ws[c].cur
                IN  CASE msg.type = "text" ->
                            \E clock \in Clock(msg.text) :
                                LET response == handle_message(msg.text, "ok", clock)
                                IN  IF response.some
                                    THEN SendsOrEnds(c, [type |-> "text",
                                                         text |-> response, data |-> ""])
                                    ELSE GoesOnSilently(c)
                      [] msg.type = "binary" -> GoesOnSilently(c)
                      [] msg.type = "pong"   -> GoesOnSilently(c)
                      [] msg.type = "ping"   -> SendsOrEnds(c, WsPong(msg.data))
                      [] msg.type = "close"  ->
                            ws'[c].outbox = ws[c].outbox /\ ws'[c].state = "closed"
          /\ (ws[c].state = "open" /\ ws'[c].state # "open") =>
                /\ ws'[c].outbox = ws[c].outbox
                /\ ws'[c].state = "closed" <=> Head(ws[c].inbox).type \in {"error", "eof"}
      ]_vars

\* C33 witness: a connection read a Binary frame, then a Ping it answered with
\* the Pong of the same payload, then a Close frame that ended its loop.
C33_Witness ==
    \E c \in Conns :
        /\ Len(ws[c].read) = 3
        /\ ws[c].read[1] = WsBinary
        /\ ws[c].read[2] = WsPing("p1")
        /\ ws[c].read[3] = WsClose
        /\ ws[c].outbox = <<WsPong("p1")>>
        /\ ws[c].state = "closed"

\* The connections whose handle_socket loop is running.
RunningLoops == { c \in Conns : ws[c].state \in {"open", "busy"} }

\* C36: under any interleaving of the connections the active-connection
\* counter is the number of handle_socket loops running; it is never negative
\* and it is zero when every client that connected has left.
C36_WsCounterCountsLoops ==
    /\ active_ws_connections = Cardinality(RunningLoops)
    /\ active_ws_connections >= 0
    /\ (\A c \in Conns : ws[c].state \in {"idle", "closed"}) => active_ws_connections = 0

\* C36 witness: both connections have ended, one on a receive error and the
\* other, after a ping it answered, on a close frame; the counter is back at
\* zero.
C36_Witness ==
    /\ active_ws_connections = 0
    /\ ws["c1"].state = "closed" /\ ws["c2"].state = "closed"
    /\ ws["c1"].read = <<RecvErr>>
    /\ ws["c2"].read = <<WsPing("p1"), WsClose>>
    /\ ws["c2"].outbox = <<WsPong("p1")>>

\* The tools/call posted asks a registered JSON-backed tool for one of its
\* supported operations while its data file loads.
PostedJsonOperation(operation) ==
    /\ PostedCall
    /\ Posted.params.name \in DOMAIN plugins
    /\ plugins[Posted.params.name] \in JsonPlugins
    /\ PostedOperation = operation
    /\ operation \in supported_operations(plugins[Posted.params.name])
    /\ request.fs = "ok"

\* The query and the field of the SEARCH posted, with their defaults.
PostedQuery == str_or(Posted.params.query, "")
PostedField == str_or(Posted.params.field, "name")

\* value contains query when case is ignored.
ContainsIgnoringCase(value, query) ==
    \E i \in 1..(Len(value) + 1) :
        /\ i + Len(query) - 1 <= Len(value)
        /\ to_lowercase(SubSeq(value, i, i + Len(query) - 1)) = to_lowercase(query)

\* The items a SEARCH for the posted query must return, in data order.
SearchHits ==
    SelectSeq(Data, LAMBDA item :
        PostedQuery = "" \/ ContainsIgnoringCase(item_str(item, PostedField), PostedQuery))

\* The answer is a result that is no tool error and holds text as its one
\* Text content.
AnswersText(text) ==
    /\ OneAnswer
    /\ Answer.result.present /\ ~Answer.error.present
    /\ ~Answer.result.isError
    /\ Answer.result.content = <<Text(text)>>

\* C34: SEARCH on a JSON-backed plugin returns exactly the items whose field
\* value (field "name" by default) contains the query case-insensitively, in
\* data order, every item when the query is empty or absent, and a count equal
\* to the number of results; LIST returns every item and their number.
C34_JsonSearchAndList ==
    /\ PostedJsonOperation("SEARCH")
          => AnswersText(pretty_search(SearchHits, Len(SearchHits), PostedQuery, PostedField))
    /\ PostedJsonOperation("SEARCH") /\ PostedQuery = ""
          => AnswersText(pretty_search(Data, Len(Data), "", PostedField))
    /\ PostedJsonOperation("LIST")
          => AnswersText(pretty_list(Data, Len(Data)))

\* C34 witness: a SEARCH for "AL" in the default field returned the two items
\* whose names hold "Al" and "AL", of three.
C34_Witness ==
    /\ PostedJsonOperation("SEARCH")
    /\ Posted.params.query = "AL" /\ Posted.params.field = Absent
    /\ SearchHits = <<Data[1], Data[2]>>
    /\ AnswersText(pretty_search(<<Data[1], Data[2]>>, 2, "AL", "name"))

\* The tools/call posted names a registered JSON-backed tool.
PostedJsonCall ==
    /\ PostedCall
    /\ Posted.params.name \in DOMAIN plugins
    /\ plugins[Posted.params.name] \in JsonPlugins

\* The answer is a result that reports a tool error with this text.
AnswersToolError(text) ==
    /\ OneAnswer
    /\ Answer.result.present /\ ~Answer.error.present
    /\ Answer.result.isError
    /\ Answer.result.content = <<Text("Exec err: " \o text)>>

\* C35: a JSON-backed plugin asked for an operation it does not list answers
\* with the error of the support check, whether or not its data file can be
\* read; asked for a listed operation while the file is missing or unreadable
\* it answers with the error of the read.  tools/call reports both as a result
\* with isError = true.
C35_JsonPluginErrors ==
    PostedJsonCall =>
        LET name == plugins[Posted.params.name]
        IN  /\ PostedOperation \notin supported_operations(name)
                  => AnswersToolError("Operation '" \o PostedOperation
                                         \o "' not supported for plugin '" \o name \o "'")
            /\ (PostedOperation \in supported_operations(name) /\ request.fs # "ok")
                  => AnswersToolError(IoError(request.fs))

\* C35 witness: the product tool, whose file is missing, was asked for GET,
\* which it does not list, and answered that the operation is not supported.
C35_Witness ==
    /\ PostedJsonCall
    /\ Posted.params.name = "store_product" /\ PostedOperation = "GET"
    /\ request.fs = "missing"
    /\ AnswersToolError("Operation 'GET' not supported for plugin 'store_product'")

\* The DELETE tasks for session id s that have begun, and those answered.
DeletesOf(s) == { t \in DeleteTasks : deletes[t].pc # "idle" /\ deletes[t].session = s }
AnsweredWith(s, status) ==
    { t \in DeletesOf(s) : deletes[t].pc = "done" /\ deletes[t].status = status }

\* The DELETE tasks for s whose remove() ran when GET had stored s e times:
\* no GET put s into the table between the removals of two of them.
RemovedAt(s, e) ==
    { t \in DeletesOf(s) : deletes[t].pc \in {"removed", "done"} /\ deletes[t].epoch = e }

C38_ListAndCallAgree ==
    /\ ToolsListed = DOMAIN plugins
    /\ \A n \in DOMAIN plugins : plugin_name(plugins[n]) = n
    /\ (PostedCall /\ Posted.params.name \in ToolsListed)
          => LET res == execute(plugins[Posted.params.name], PostedOperation,
                                Posted.params, request.fs, Head(request.clock))
                 not_found == "Exec err: Plugin '" \o Posted.params.name \o "' not found"
             IN  /\ OneAnswer
                 /\ Answer.result.present /\ ~Answer.error.present
                 /\ Answer.result.isError = ~res.ok
                 /\ Answer.result.content
                        = <<Text(IF res.ok THEN res.text ELSE "Exec err: " \o res.text)>>
                 /\ Answer.result.content # <<Text(not_found)>>
    /\ (PostedCompletion("completions") /\ Posted.params.argName = "name"
            /\ PostedToolContext = None)
          => Answer.result.values \subseteq ToolsListed

\* C38 witness: with the eight tools listed, a call of the listed tool
\* weather_forecast reached its execute and returned its result.
C38_Witness ==
    /\ Cardinality(ToolsListed) = 8
    /\ PostedCall /\ Posted.params.name = "weather_forecast"
    /\ Posted.params.name \in ToolsListed
    /\ PostedOperation = "GET"
    /\ Answer.result.present /\ ~Answer.result.isError

\* The sequence without its i-th element.
WithoutIndex(seq, i) == SubSeq(seq, 1, i - 1) \o SubSeq(seq, i + 1, Len(seq))

\* The element carries an id but is no valid request.
BadWithId(v) == CarriesId(v) /\ ~MCPRequest_ok(v)

\* The place, among the responses, of the response to the i-th element.
ResponseIndex(i) == Len(SelectSeq(SubSeq(request.body.values, 1, i), CarriesId))

\* C39: batch elements are handled independently: an element that carries an
\* id but is no valid request is answered with an error of code -32700 that
\* carries its id, and the other elements of the batch are answered exactly as
\* the batch without that element is answered.
C39_BatchElementsIndependent ==
    PostedArray =>
        \A i \in 1..Len(request.body.values) :
            BadWithId(request.body.values[i]) =>
                LET k == ResponseIndex(i)
                    rest == Message("array", TRUE, WithoutIndex(request.body.values, i))
                IN  /\ k \in 1..Len(reply.out.envelopes)
                    /\ reply.out.envelopes[k].id = request.body.values[i].id
                    /\ reply.out.envelopes[k].error.present
                    /\ reply.out.envelopes[k].error.code = -32700
                    /\ ~reply.out.envelopes[k].result.present
                    /\ WithoutIndex(reply.out.envelopes, k)
                           = handle_message(rest, request.fs, WithoutIndex(request.clock, i)).envelopes

\* C39 witness: a batch of an object with id 2 and no method followed by a
\* tools/call with id "a" was answered with the parse error for 2 and then the
\* result of the call.
C39_Witness ==
    /\ PostedArray
    /\ Len(request.body.values) = 2
    /\ BadWithId(request.body.values[1])
    /\ request.body.values[2].method = "tools/call"
    /\ Len(reply.out.envelopes) = 2
    /\ reply.out.envelopes[1].id = "2"
    /\ reply.out.envelopes[1].error.code = -32700
    /\ reply.out.envelopes[2].id = "\"a\""
    /\ reply.out.envelopes[2].result.present

\* The body posted is the batch without elements, [].
PostedEmptyBatch == PostedArray /\ request.body.values = <<>>

\* The batches of notifications only among the bodies posted to the server.
NotificationBatches ==
    { b \in Bodies : /\ b.form = "array" /\ b.valid /\ b.values # <<>>
                     /\ \A i \in 1..Len(b.values) : Notification(b.values[i]) }

\* C40: the empty batch [] gets no response: the handler returns none, POST
\* answers 204 with no body and no error envelope, which is also what a batch
\* made only of notifications gets.
C40_EmptyBatchNoResponse ==
    PostedEmptyBatch =>
        /\ handle_message(request.body, request.fs, request.clock) = NoResponse
        /\ reply.status = 204
        /\ reply.body = "" /\ reply.content_type = Absent
        /\ ~reply.out.some /\ reply.out.envelopes = <<>>
        /\ \A b \in NotificationBatches : \A clock \in Clock(b) :
               handle_message(b, request.fs, clock)
                   = handle_message(request.body, request.fs, request.clock)

\* C40 witness: [] was posted and answered 204, and there is a batch of
\* notifications to compare it with.
C40_Witness ==
    /\ PostedEmptyBatch
    /\ reply.status = 204 /\ reply.body = ""
    /\ NotificationBatches # {}
====
